---- MODULE Spec2Model ----
(***************************************************************************)
(* Model of the editing core of mino-editor: Highlight and the Syntax       *)
(* tables, Row (chars / render / hl, update and update_highlight, the      *)
(* tab-aware column conversion, chars_at / rchars_at), Diff, History       *)
(* (bounded applied stack and undone stack), TextBuffer (insert_rows /     *)
(* remove_rows / undo / redo and create_remove_msg_region) and the Screen  *)
(* key handlers that drive them.                                           *)
(*                                                                         *)
(* A text is a sequence of one-character strings; all characters are ASCII *)
(* so byte offsets and character offsets coincide.  Indexes in the source  *)
(* are zero-based: index i of the source is element i+1 of a sequence.     *)
(* A Rust panic (slice or index out of range, usize underflow) ends the    *)
(* program: it is recorded in `panicked` and no action is enabled after.   *)
(***************************************************************************)
EXTENDS Integers, Sequences, FiniteSets, TLC

VARIABLES
    buf,        \* the TextBuffer: [rows, is_dirty, select_anchor, in_select_mode, history, syntax]
    cx, cy,     \* Screen.cx, Screen.cy
    log,        \* observation: the last operations, each with its arguments, result and the texts before it
    edits,      \* observation: length of the current run of recorded edits
    undos,      \* observation: TextBuffer.undo calls made right after that run
    steps,      \* the operations counted against the bound of the specification
    panicked,   \* NoPanic, or the function in which the program panicked
    one_row,    \* a Row on its own: [chars, render, hl, has_tabs]
    config,     \* what Row::update is given: [tab_stop, syntax]
    call,       \* observation: the last method called on one_row, its arguments and result
    hist,       \* history.rs: a History taken on its own, with the observation of its calls
    editor,     \* the Editor's counters [quit_times, close_times], whether the process
                \* has exited, and the observation of the warnings shown in a row
    clip        \* clipboard.rs: the Clipboard, the contents of the system clipboard,
                \* and the observation of the last calls

vars ==
    <<buf, cx, cy, log, edits, undos, steps, panicked, one_row, config, call, hist, editor,
      clip>>

\* the variables of the Row taken on its own
row_vars == <<one_row, config, call>>

\* the variables of the TextBuffer and the Screen
buffer_vars == <<buf, cx, cy, log, edits, undos, steps, panicked>>

-----------------------------------------------------------------------------
(* Program constants *)

\* Config::default: tab_stop
TabStop == 4

\* history.rs: const DEPTH
DEPTH == 50

TAB == "\t"

-----------------------------------------------------------------------------
(* Bounds of the model *)

\* TextBuffer operations called in one behaviour of Spec
MaxOps == 3

\* TextBuffer operations called in one behaviour of SpecEdit
MaxEdits == 2

\* key events handled in one behaviour of SpecKeys
MaxKeyOps == 4

\* TextBuffer.undo calls in a row in SpecDepth
MaxUndos == 52

\* characters typed in one behaviour of SpecDepth
MaxTyped == 52

\* characters of a row text in SpecRow
MaxRowLen == 3

\* the largest tab stop configured in SpecRow
MaxTabStop == 3

\* tokens of a row text in SpecHighlight
MaxTokens == 2

\* tokens of a row text in SpecComment
MaxCommentTokens == 4

\* calls of Row::update on one row, one after the other
MaxUpdates == 2

\* calls of perform / undo / redo on one History
MaxHistOps == 6

\* calls of save_context / load_context on one Clipboard
MaxClipOps == 3

\* lines of a context given to save_context
MaxClipRows == 2

-----------------------------------------------------------------------------
(* util.rs: Pos *)

Pos(x, y) == [x |-> x, y |-> y]

\* Ord for Pos: row-major, then column
PosLess(p, q) == p.y < q.y \/ (p.y = q.y /\ p.x < q.x)

PosLeq(p, q) == p = q \/ PosLess(p, q)

None == [some |-> FALSE, pos |-> Pos(0, 0)]

Some(p) == [some |-> TRUE, pos |-> p]

NoPanic == "none"

-----------------------------------------------------------------------------
(* highlight.rs: Highlight; lang.rs: Syntax, SyntaxFlags, is_sep *)

\* Highlight { syntax, select }
Highlight(syntax_hl, select_hl) == [syntax |-> syntax_hl, select |-> select_hl]

\* a default tag of the syntax class Comment
Highlight_comment == Highlight("Comment", "Normal")

\* Highlight::default: (SyntaxHighlight::Normal, SelectHighlight::Normal)
Highlight_default == Highlight("Normal", "Normal")

\* Highlight::from_syntax_hl
from_syntax_hl(syntax_hl) == Highlight(syntax_hl, "Normal")

\* Option<&str> / Option<char>
NoStr == [some |-> FALSE, str |-> <<>>]

SomeStr(s) == [some |-> TRUE, str |-> s]

\* SyntaxFlags: the bit of each flag (NESTED_COMMENTS and CAPITAL_AS_TYPES
\* are declared with the same bit)
HIGHLIGHT_NUMBERS == 1

HIGHLIGHT_STRINGS == 2

HIGHLIGHT_IDENTS == 4

NESTED_COMMENTS == 8

CAPITAL_AS_TYPES == 8

\* checkflags!(FLAG in flags): flags.contains(FLAG), every flag being one bit
checkflags(flag, flags) == (flags \div flag) % 2 = 1

\* the names of the flags of SyntaxFlags and the bits they are declared with
FlagNames ==
    {"HIGHLIGHT_NUMBERS", "HIGHLIGHT_STRINGS", "HIGHLIGHT_IDENTS", "NESTED_COMMENTS",
     "CAPITAL_AS_TYPES"}

FlagBits(name) ==
    CASE name = "HIGHLIGHT_NUMBERS" -> HIGHLIGHT_NUMBERS
      [] name = "HIGHLIGHT_STRINGS" -> HIGHLIGHT_STRINGS
      [] name = "HIGHLIGHT_IDENTS" -> HIGHLIGHT_IDENTS
      [] name = "NESTED_COMMENTS" -> NESTED_COMMENTS
      [] name = "CAPITAL_AS_TYPES" -> CAPITAL_AS_TYPES

\* the bitwise or of a set of one-bit values: each bit counts once
RECURSIVE bitor(_)
bitor(bits) ==
    IF bits = {} THEN 0
    ELSE LET b == CHOOSE x \in bits : TRUE IN b + bitor(bits \ {b})

\* bitexpr!(SyntaxFlags: A | B | ..): the bits() of the named flags, or-ed
bitexpr(names) == bitor({FlagBits(name) : name \in names})

\* the Syntax tables, their word lists cut down to the words the texts of the
\* model can spell
Syntax_TEXT ==
    [lang |-> "Text", keywords |-> <<>>, flow_keywords |-> <<>>, common_types |-> <<>>,
     meta_keywords |-> <<>>, path_access_delims |-> <<>>,
     ln_comment |-> NoStr, multi_comment |-> [some |-> FALSE, start |-> <<>>, end |-> <<>>],
     flags |-> bitexpr({})]

Syntax_UNKNOWN == [Syntax_TEXT EXCEPT !.lang = "Unknown"]

Syntax_C ==
    [lang |-> "C", keywords |-> <<>>, flow_keywords |-> << <<"i", "f">> >>,
     common_types |-> <<>>, meta_keywords |-> << <<"#", "i", "f">> >>,
     path_access_delims |-> <<>>,
     ln_comment |-> SomeStr(<<"/", "/">>),
     multi_comment |-> [some |-> TRUE, start |-> <<"/", "*">>, end |-> <<"*", "/">>],
     flags |-> bitexpr({"HIGHLIGHT_NUMBERS", "HIGHLIGHT_STRINGS", "HIGHLIGHT_IDENTS"})]

Syntax_RUST ==
    [lang |-> "Rust", keywords |-> << <<"f", "n">> >>,
     flow_keywords |-> << <<"i", "f">>, <<"i", "n">> >>,
     common_types |-> << <<"u", "8">> >>, meta_keywords |-> <<>>,
     path_access_delims |-> << <<":", ":">> >>,
     ln_comment |-> SomeStr(<<"/", "/">>),
     multi_comment |-> [some |-> TRUE, start |-> <<"/", "*">>, end |-> <<"*", "/">>],
     flags |-> bitexpr({"HIGHLIGHT_NUMBERS", "HIGHLIGHT_STRINGS", "HIGHLIGHT_IDENTS",
                        "NESTED_COMMENTS", "CAPITAL_AS_TYPES"})]

Syntax_PYTHON ==
    [lang |-> "Python", keywords |-> <<>>, flow_keywords |-> <<>>, common_types |-> <<>>,
     meta_keywords |-> <<>>, path_access_delims |-> <<>>,
     ln_comment |-> SomeStr(<<"#">>),
     multi_comment |-> [some |-> FALSE, start |-> <<>>, end |-> <<>>],
     flags |-> bitexpr({"HIGHLIGHT_NUMBERS", "HIGHLIGHT_STRINGS", "HIGHLIGHT_IDENTS"})]

\* char::is_ascii_whitespace
Whitespace == {" ", TAB}

\* char::is_ascii_punctuation (the backquote, which no text of the model holds,
\* is left out)
Punctuation ==
    {"!", "\"", "#", "$", "%", "&", "'", "(", ")", "*", "+", ",", "-", ".", "/", ":",
     ";", "<", "=", ">", "?", "@", "[", "\\", "]", "^", "_", "{", "|", "}", "~"}

\* char::is_digit(10)
Digits == {"0", "1", "2", "3", "4", "5", "6", "7", "8", "9"}

\* char::is_uppercase, for ASCII
Uppercase ==
    {"A", "B", "C", "D", "E", "F", "G", "H", "I", "J", "K", "L", "M", "N", "O", "P", "Q",
     "R", "S", "T", "U", "V", "W", "X", "Y", "Z"}

\* update_highlight: ch == '"' || ch == '\''
Quotes == {"\"", "'"}

\* lang.rs: is_sep ('\0' is no character of the model's texts)
is_sep(ch) == ch \in Whitespace \/ (ch \in Punctuation /\ ch # "_")

-----------------------------------------------------------------------------
(* buffer.rs: Row *)

Row_new == [chars |-> <<>>, render |-> <<>>, hl |-> <<>>, has_tabs |-> FALSE]

size(row) == Len(row.chars)

rsize(row) == Len(row.render)

\* Row::cx_to_rx: the loop over char_indices with rx
RECURSIVE cx_to_rx_loop(_, _, _, _, _)
cx_to_rx_loop(chars, cx0, i, rx, tab_stop) ==
    IF i >= Len(chars) \/ i = cx0 THEN rx
    ELSE LET tabbed == IF chars[i + 1] = TAB
                       THEN rx + (tab_stop - 1) - (rx % tab_stop)
                       ELSE rx
         IN  cx_to_rx_loop(chars, cx0, i + 1, tabbed + 1, tab_stop)

\* cx_to_rx with every tab tab_stop columns wide, whatever its column
cx_to_rx_fixed_tabs(row, cx0, tab_stop) ==
    cx0 + (tab_stop - 1) * Cardinality({i \in 1..cx0 : i <= Len(row.chars) /\ row.chars[i] = TAB})

cx_to_rx(row, cx0, tab_stop) == cx_to_rx_loop(row.chars, cx0, 0, 0, tab_stop)

\* Row::rx_to_cx: the loop over chars with cur_rx and cx
RECURSIVE rx_to_cx_loop(_, _, _, _, _)
rx_to_cx_loop(chars, rx, cx0, cur_rx, tab_stop) ==
    IF cx0 >= Len(chars) THEN cx0
    ELSE LET ch == chars[cx0 + 1]
             tabbed == IF ch = TAB
                       THEN cur_rx + (tab_stop - 1) - (cur_rx % tab_stop)
                       ELSE cur_rx
             nxt == tabbed + 1
         IN  IF nxt > rx THEN cx0 ELSE rx_to_cx_loop(chars, rx, cx0 + 1, nxt, tab_stop)

rx_to_cx(row, rx, tab_stop) == rx_to_cx_loop(row.chars, rx, 0, 0, tab_stop)

\* ops::Bound of a range given to chars_at
Unbounded == [kind |-> "Unbounded", i |-> 0]

Included(i) == [kind |-> "Included", i |-> i]

Excluded(i) == [kind |-> "Excluded", i |-> i]

EmptyRange == [start |-> 0, end |-> 0]

\* Row::index_range(str, size, range): the zero-based half-open range start..end
index_range(len, sz, start, end) ==
    IF len = 0 THEN EmptyRange
    ELSE IF start.kind = "Excluded" /\ start.i >= sz - 1 THEN EmptyRange
    ELSE IF end.kind = "Excluded" /\ (end.i > sz \/ end.i = 0) THEN EmptyRange
    ELSE LET start_idx == CASE start.kind = "Unbounded" -> 0
                            [] start.kind = "Included" ->
                                 IF start.i >= sz THEN sz - 1 ELSE start.i
                            [] start.kind = "Excluded" -> start.i + 1
             end_idx == CASE end.kind = "Unbounded" -> sz
                          [] end.kind = "Included" ->
                               IF end.i >= sz THEN sz ELSE end.i + 1
                          [] end.kind = "Excluded" -> end.i
         IN  [start |-> start_idx, end |-> end_idx]

\* &str[range]: slicing panics when start > end or end > len
slice(str, r) ==
    [ok  |-> r.start <= r.end /\ r.end <= Len(str),
     str |-> SubSeq(str, r.start + 1, r.end)]

\* Row::chars_at: &self.chars[index_range(..)]
chars_at(row, start, end) ==
    slice(row.chars, index_range(Len(row.chars), size(row), start, end))

\* Row::rchars_at: &self.render[index_range(..)]
rchars_at(row, start, end) ==
    slice(row.render, index_range(Len(row.render), rsize(row), start, end))

\* one tag for a whole word or marker, however long
tags_single(syntax_hl, n) == << from_syntax_hl(syntax_hl) >>

\* vec![Highlight::from_syntax_hl(tag); n]
tags(syntax_hl, n) == [k \in 1..n |-> from_syntax_hl(syntax_hl)]

\* the retagging of the one tag at index i - 1
retag_last(hl, i, j, tag) ==
    IF j <= i /\ hl[i - j + 1].syntax = "Ident"
    THEN [hl EXCEPT ![i - j + 1] = from_syntax_hl(tag)]
    ELSE hl

\* update_highlight, `while j <= i`: the run of Ident tags that ends at
\* index i - 1 is given another tag
RECURSIVE retag(_, _, _, _)
retag(hl, i, j, tag) ==
    IF j <= i /\ hl[i - j + 1].syntax = "Ident"
    THEN retag([hl EXCEPT ![i - j + 1] = from_syntax_hl(tag)], i, j + 1, tag)
    ELSE hl

\* update_highlight: the render character that follows a word found at i
char_after(row, i, word) ==
    rchars_at(row, Included(i + Len(word)), Included(i + Len(word))).str

\* update_highlight: word == rchars_at(i..i+len)
word_at(row, i, word) ==
    word = rchars_at(row, Included(i), Excluded(i + Len(word))).str

\* what follows a word found at i: "sep" for a separator, "other" for another
\* character, "none" for the empty string, on which .next().unwrap() panics
follows(after) ==
    IF after = <<>> THEN "none" ELSE IF is_sep(after[1]) THEN "sep" ELSE "other"

\* update_highlight, `for word in list`: the index k of the first word from the
\* k0-th on that stands at i and ends the row or is followed by a separator
\* (0 when none does); ok turns FALSE where the unwrap panics
RECURSIVE find_word(_, _, _, _)
find_word(row, i, words, k0) ==
    IF k0 > Len(words) THEN [k |-> 0, ok |-> TRUE]
    ELSE IF ~word_at(row, i, words[k0]) THEN find_word(row, i, words, k0 + 1)
    ELSE IF rsize(row) = i + Len(words[k0]) THEN [k |-> k0, ok |-> TRUE]
    ELSE CASE follows(char_after(row, i, words[k0])) = "none" -> [k |-> 0, ok |-> FALSE]
           [] follows(char_after(row, i, words[k0])) = "sep" -> [k |-> k0, ok |-> TRUE]
           [] OTHER -> find_word(row, i, words, k0 + 1)

\* update_highlight: the body of a word block once the list has been searched
word_found(row, st, words, tag, f) ==
    IF ~f.ok THEN [st |-> [st EXCEPT !.ok = FALSE], cont |-> TRUE]
    ELSE IF f.k = 0 THEN [st |-> st, cont |-> FALSE]
    ELSE [st |-> [st EXCEPT !.hl = @ \o tags(tag, Len(words[f.k])),
                           !.i = @ + Len(words[f.k]),
                           !.is_prev_sep = IF st.i + Len(words[f.k]) < rsize(row)
                                           THEN is_sep(row.render[st.i + Len(words[f.k]) + 1])
                                           ELSE FALSE],
          cont |-> TRUE]

\* update_highlight: one of the four blocks `if is_prev_sep { for word in .. }`;
\* cont says that the block ended the iteration with `continue`
word_block(row, st, words, tag) ==
    IF ~st.is_prev_sep \/ st.quote.some THEN [st |-> st, cont |-> FALSE]
    ELSE word_found(row, st, words, tag, find_word(row, st.i, words, 1))

\* the first of the blocks that ended the iteration, the last one when none did
first_cont(ws) ==
    IF ws[1].cont THEN ws[1] ELSE IF ws[2].cont THEN ws[2]
    ELSE IF ws[3].cont THEN ws[3] ELSE ws[4]

\* update_highlight: the blocks of the keywords, the flow words, the common types
\* and the meta words, in this order
word_blocks(row, syntax, st) ==
    first_cont(<< word_block(row, st, syntax.keywords, "Keyword"),
                  word_block(row, st, syntax.flow_keywords, "Flowword"),
                  word_block(row, st, syntax.common_types, "Type"),
                  word_block(row, st, syntax.meta_keywords, "Metaword") >>)

\* the line-comment test without quote.is_none(): a marker in a string counts
ln_comment_in_quote(row, syntax, st) ==
    syntax.ln_comment.some /\ word_at(row, st.i, syntax.ln_comment.str)

\* update_highlight: quote.is_none() && ln_comment == self.rchars_at(i..i+len)
ln_comment_at(row, syntax, st) ==
    syntax.ln_comment.some /\ ~st.quote.some /\ word_at(row, st.i, syntax.ln_comment.str)

\* update_highlight: the iterations of `while let Some((i, ch)) = next` from the
\* state st = [i, hl, is_prev_sep, quote, nested, ok]; i is the index of `next`
\* (None from rsize on), ok turns FALSE where the code would panic
RECURSIVE scan(_, _, _)
RECURSIVE scan_rest(_, _, _, _)
scan(row, syntax, st) ==
    IF st.i >= rsize(row) \/ ~st.ok THEN st
    ELSE
    LET i == st.i
        n == rsize(row)
        ch == row.render[i + 1]
        lc == syntax.ln_comment
        mc == syntax.multi_comment
        push(tag) == [st EXCEPT !.hl = Append(@, from_syntax_hl(tag)), !.i = i + 1]
    IN
    \* let prev_hl = if i > 0 { self.hl[i - 1] } ..
    IF i > 0 /\ i - 1 >= Len(st.hl) THEN [st EXCEPT !.ok = FALSE]
    \* single-line comment: the rest of the row, then break
    ELSE IF ln_comment_at(row, syntax, st) THEN
        IF Len(st.hl) > n THEN [st EXCEPT !.ok = FALSE]
        ELSE [st EXCEPT !.hl = @ \o tags("Comment", n - Len(st.hl)), !.i = n]
    \* multi-line comment: the start marker
    ELSE IF mc.some /\ ~st.quote.some /\ word_at(row, i, mc.start) THEN
        scan(row, syntax, [st EXCEPT !.hl = @ \o tags("Comment", Len(mc.start)),
                                     !.i = i + Len(mc.start),
                                     !.nested = @ + 1])
    \* multi-line comment: inside, with or without the end marker at i
    ELSE IF mc.some /\ ~st.quote.some /\ st.nested > 0 THEN
        IF word_at(row, i, mc.end) THEN
            scan(row, syntax, [st EXCEPT !.hl = @ \o tags("Comment", Len(mc.end)),
                                         !.i = i + Len(mc.end),
                                         !.nested = IF checkflags(NESTED_COMMENTS, syntax.flags)
                                                    THEN @ - 1 ELSE 0,
                                         !.is_prev_sep = TRUE])
        ELSE scan(row, syntax, push("Comment"))
    ELSE scan_rest(row, syntax, st, word_blocks(row, syntax, st))

\* update_highlight: the iteration from the word blocks on; w is what they made
\* of st
scan_rest(row, syntax, st, w) ==
    IF w.cont THEN scan(row, syntax, w.st)
    ELSE
    LET i == st.i
        n == rsize(row)
        ch == row.render[i + 1]
        push(tag) == [st EXCEPT !.hl = Append(@, from_syntax_hl(tag)), !.i = i + 1]
        prev_hl == IF i > 0 THEN st.hl[i] ELSE Highlight_default
        hl_strings == checkflags(HIGHLIGHT_STRINGS, syntax.flags)
    IN
    \* strings: inside a quote
    IF hl_strings /\ st.quote.some THEN
        IF ch = "\\" /\ i + 1 < n THEN
            scan(row, syntax, [st EXCEPT !.hl = @ \o tags("String", 2), !.i = i + 2])
        ELSE
            scan(row, syntax, [push("String") EXCEPT
                                   !.quote = IF ch = st.quote.str THEN NoStr ELSE @,
                                   !.is_prev_sep = TRUE])
    \* strings: the opening quote
    ELSE IF hl_strings /\ ch \in Quotes THEN
        scan(row, syntax, [push("String") EXCEPT !.quote = SomeStr(ch)])
    \* numbers
    ELSE IF \/ /\ checkflags(HIGHLIGHT_NUMBERS, syntax.flags)
               /\ ch \in Digits
               /\ (st.is_prev_sep \/ prev_hl.syntax = "Number")
            \/ (ch = "." /\ prev_hl.syntax = "Number") THEN
        scan(row, syntax, [push("Number") EXCEPT !.is_prev_sep = FALSE])
    \* identifiers, a capital first letter as a type
    ELSE IF /\ checkflags(HIGHLIGHT_IDENTS, syntax.flags)
            /\ (st.is_prev_sep \/ prev_hl.syntax = "Ident")
            /\ ~is_sep(ch) THEN
        scan(row, syntax,
             [push(IF /\ checkflags(CAPITAL_AS_TYPES, syntax.flags)
                      /\ st.is_prev_sep
                      /\ ch \in Uppercase
                   THEN "Type" ELSE "Ident")
              EXCEPT !.is_prev_sep = FALSE])
    \* the rest of a capitalized identifier
    ELSE IF /\ checkflags(CAPITAL_AS_TYPES, syntax.flags)
            /\ prev_hl.syntax = "Type"
            /\ ~is_sep(ch) THEN
        scan(row, syntax, [push("Type") EXCEPT !.is_prev_sep = FALSE])
    ELSE
    \* functions: the identifier before `(`; paths: the identifier before a delimiter
    LET hl1 == IF prev_hl.syntax = "Ident" /\ ch = "("
               THEN retag(st.hl, i, 1, "Function") ELSE st.hl
        hl2 == IF prev_hl.syntax = "Ident"
                  /\ \E k \in 1..Len(syntax.path_access_delims) :
                        word_at(row, i, syntax.path_access_delims[k])
               THEN retag(hl1, i, 1, "Path") ELSE hl1
    IN  scan(row, syntax, [st EXCEPT !.hl = Append(hl2, Highlight_default),
                                     !.i = i + 1,
                                     !.is_prev_sep = is_sep(ch)])

\* update_highlight: the state before the first iteration
scan_start ==
    [i |-> 0, hl |-> <<>>, is_prev_sep |-> TRUE, quote |-> NoStr, nested |-> 0, ok |-> TRUE]

\* Row::update_highlight
update_highlight(row, syntax) ==
    IF syntax.lang = "Unknown"
    THEN [row EXCEPT !.hl = [k \in 1..rsize(row) |-> Highlight_default]]
    ELSE [row EXCEPT !.hl = scan(row, syntax, scan_start).hl]

\* Row::update_highlight reaches its end without a panic
update_highlight_ok(row, syntax) ==
    syntax.lang = "Unknown" \/ scan(row, syntax, scan_start).ok

\* Row::update, the render string: every tab becomes tab_stop spaces
RECURSIVE render_of(_, _)
render_of(chars, tab_stop) ==
    IF chars = <<>> THEN <<>>
    ELSE (IF Head(chars) = TAB THEN [i \in 1..tab_stop |-> " "] ELSE <<Head(chars)>>)
         \o render_of(Tail(chars), tab_stop)

\* update without the rebuilding of render: only the tags are made again
update_keeps_render(row, tab_stop, syntax) == update_highlight(row, syntax)

\* update that pushes onto the render string the row already has
update_onto_render(row, tab_stop, syntax) ==
    update_highlight(
        [row EXCEPT !.render = row.render \o render_of(row.chars, tab_stop),
                    !.has_tabs = \E i \in 1..Len(row.chars) : row.chars[i] = TAB],
        syntax)

\* Row::update
update(row, tab_stop, syntax) ==
    update_highlight(
        [row EXCEPT !.render = render_of(row.chars, tab_stop),
                    !.has_tabs = \E i \in 1..Len(row.chars) : row.chars[i] = TAB],
        syntax)

\* Row::from_chars
Row_from_chars(chars, tab_stop, syntax) ==
    update([Row_new EXCEPT !.chars = chars], tab_stop, syntax)

-----------------------------------------------------------------------------
(* diff.rs: Diff *)

Insert(pos, rows) == [tag |-> "Insert", pos |-> pos, rows |-> rows]

Remove(pos, rows) == [tag |-> "Remove", pos |-> pos, rows |-> rows]

\* an inverse that hands the diff back as it is
inverse_keeps_tag(d) == d

\* Diff::inverse
inverse(d) ==
    IF d.tag = "Insert" THEN Remove(d.pos, d.rows) ELSE Insert(d.pos, d.rows)

-----------------------------------------------------------------------------
(* history.rs: History.  redo is the CircularBuffer<DEPTH> of applied      *)
(* diffs (back = last element), undo is the Vec of undone diffs.           *)

History_new == [redo |-> <<>>, undo |-> <<>>]

\* push_back as a plain Vec::push would do it: nothing is ever dropped
push_back_unbounded(cb, d) == Append(cb, d)

\* push_back overwriting the back of a full buffer instead of its front
push_back_over_back(cb, d) ==
    IF Len(cb) >= DEPTH THEN Append(SubSeq(cb, 1, Len(cb) - 1), d) ELSE Append(cb, d)

\* CircularBuffer::push_back: a full buffer overwrites its front element
push_back(cb, d) ==
    IF Len(cb) >= DEPTH THEN Append(Tail(cb), d) ELSE Append(cb, d)

Front(s) == SubSeq(s, 1, Len(s) - 1)

Last(s) == s[Len(s)]

\* perform without self.undo.clear()
History_perform_keeps_undone(h, d) == [redo |-> push_back(h.redo, d), undo |-> h.undo]

\* History::perform
History_perform(h, d) == [redo |-> push_back(h.redo, d), undo |-> <<>>]

\* redo pushing the popped diff as it lies on the undone stack, not inverted
History_redo_as_popped(h) ==
    IF h.undo = <<>> THEN [some |-> FALSE, h |-> h]
    ELSE [some |-> TRUE,
          h |-> [redo |-> push_back(h.redo, Last(h.undo)), undo |-> Front(h.undo)]]

\* History::redo: [some, h], some = FALSE for None
History_redo(h) ==
    IF h.undo = <<>> THEN [some |-> FALSE, h |-> h]
    ELSE [some |-> TRUE,
          h |-> [redo |-> push_back(h.redo, inverse(Last(h.undo))),
                 undo |-> Front(h.undo)]]

\* History::undo
History_undo(h) ==
    IF h.redo = <<>> THEN [some |-> FALSE, h |-> h]
    ELSE [some |-> TRUE,
          h |-> [redo |-> Front(h.redo),
                 undo |-> Append(h.undo, inverse(Last(h.redo)))]]

\* History::current: the back of the applied buffer, when there is one
History_has_current(h) == h.redo # <<>>

History_current(h) == Last(h.redo)

\* the observation of a History taken on its own: h is the History, op the last
\* method called on it, some whether it returned Some, prev the History as that
\* call found it, marks the History as each undo not yet redone found it, expect
\* the mark the last redo took back, redos the number of redos that returned Some
\* since the last other call, n the number of calls made
NoHist ==
    [h |-> History_new, op |-> "none", some |-> FALSE, prev |-> History_new,
     marks |-> <<>>, expect |-> History_new, redos |-> 0, n |-> 0]

\* no History is looked at on its own
HistIdle == hist = NoHist

-----------------------------------------------------------------------------
(* The Editor's counters of Ctrl+Q and Ctrl+W presses *)

\* Config::default: quit_times and close_times
QuitTimes == 1

CloseTimes == 1

\* the Editor as a key event other than a warning leaves it; quit_warned and
\* close_warned observe the Ctrl+Q (Ctrl+W) warnings shown by the key events
\* that came last, with no other key event after them
Editor_new ==
    [quit_times |-> QuitTimes, close_times |-> CloseTimes, exited |-> FALSE,
     quit_warned |-> 0, close_warned |-> 0]

EditorIdle == editor = Editor_new

\* the process runs: it has neither panicked nor called std::process::exit
Running == panicked = NoPanic /\ ~editor.exited

\* the end of process_key_event: set_quit_times(config.quit_times()) and
\* set_close_times(config.close_times())
KeyHandled ==
    editor' = [editor EXCEPT !.quit_times = QuitTimes, !.close_times = CloseTimes,
                             !.quit_warned = 0, !.close_warned = 0]

-----------------------------------------------------------------------------
(* buffer.rs: TextBuffer.  An operation yields [ok, buf, pos]: ok = FALSE  *)
(* when it panics (buf is then the buffer as the call found it).           *)

TextBuffer_new ==
    [rows |-> <<>>, is_dirty |-> FALSE, select_anchor |-> None,
     in_select_mode |-> FALSE, syntax |-> Syntax_UNKNOWN, history |-> History_new]

num_rows(b) == Len(b.rows)

chars_of(rs) == [i \in 1..Len(rs) |-> rs[i].chars]

Done(b, pos) == [ok |-> TRUE, buf |-> b, pos |-> pos]

Panic(b, pos) == [ok |-> FALSE, buf |-> b, pos |-> pos]

\* TextBuffer::row_at / row_at_mut: the zero-based index of the row used;
\* -1 when the buffer has no row (num_rows() - 1 underflows: a panic)
row_at(b, idx) == IF idx >= num_rows(b) THEN num_rows(b) - 1 ELSE idx

\* make_dirty leaving the flag as it is
make_dirty_not(b) == b

\* TextBuffer::make_dirty
make_dirty(b) == [b EXCEPT !.is_dirty = TRUE]

\* TextBuffer::make_clean
make_clean(b) == [b EXCEPT !.is_dirty = FALSE]

NEWLINE == "\n"

\* rows_to_string, the loop: each row pushes its chars and one newline onto s
RECURSIVE push_rows(_, _)
push_rows(s, rows) ==
    IF rows = <<>> THEN s
    ELSE push_rows(s \o Head(rows).chars \o <<NEWLINE>>, Tail(rows))

\* the rows joined by newlines, none after the last row
rows_to_string_joined(rows) ==
    IF rows = <<>> THEN <<>>
    ELSE SubSeq(push_rows(<<>>, rows), 1, Len(push_rows(<<>>, rows)) - 1)

\* TextBuffer::rows_to_string
rows_to_string(rows) == push_rows(<<>>, rows)

\* the inserted rows with none of them skipped
skip_nothing(rows, k) == rows

\* rows.into_iter().skip(k)
skip(rows, k) == SubSeq(rows, k + 1, Len(rows))

\* insert_rows_no_diff, the last row: rs are the rows with the new ones in place
insert_last_row(b, pos, remaining, res_y, rs) ==
    \* &mut self.rows[res_pos.y()]
    IF res_y >= Len(rs) THEN Panic(b, pos)
    ELSE Done(make_dirty([b EXCEPT !.rows = [rs EXCEPT ![res_y + 1] =
                    update([@ EXCEPT !.chars = @ \o remaining], TabStop, b.syntax)]]),
              Pos(rsize(rs[res_y + 1]), res_y))

\* insert_rows_no_diff, the remaining rows: rs are the rows with the first row done
insert_remaining_rows(b, pos, new, remaining, rs) ==
    \* self.rows.split_off(pos.y() + 1)
    IF Len(new) > 1 /\ pos.y + 1 > Len(rs) THEN Panic(b, pos)
    ELSE insert_last_row(b, pos, remaining,
                         IF Len(new) > 1 THEN pos.y + Len(new) - 1 ELSE pos.y,
                         IF Len(new) > 1
                         THEN SubSeq(rs, 1, pos.y + 1) \o skip(new, 1)
                              \o SubSeq(rs, pos.y + 2, Len(rs))
                         ELSE rs)

\* TextBuffer::insert_rows_no_diff(pos, rows): rows is a sequence of Row
insert_rows_no_diff(b, pos, new) ==
    IF new = <<>> THEN Done(b, pos)
    ELSE
    LET rs0 == IF b.rows = <<>> THEN <<Row_new>> ELSE b.rows
        y0 == IF pos.y >= Len(rs0) THEN Len(rs0) - 1 ELSE pos.y
        row == rs0[y0 + 1]
    IN
    \* row.chars[pos.x()..]
    IF pos.x > Len(row.chars) THEN Panic(b, pos)
    ELSE insert_remaining_rows(b, pos, new,
            SubSeq(row.chars, pos.x + 1, Len(row.chars)),
            [rs0 EXCEPT ![y0 + 1] =
                update([row EXCEPT !.chars = SubSeq(row.chars, 1, pos.x) \o new[1].chars],
                       TabStop, b.syntax)])

\* insert_rows that hands nothing to the history
insert_rows_unrecorded(b, pos, new) == insert_rows_no_diff(b, pos, new)

\* TextBuffer::insert_rows
insert_rows(b, pos, new) ==
    insert_rows_no_diff(
        [b EXCEPT !.history = History_perform(b.history, Insert(pos, chars_of(new)))],
        pos, new)

\* TextBuffer::remove_rows_no_diff(from, rows): rows is a sequence of texts
remove_rows_no_diff(b, from, msg) ==
    LET n == Len(msg)
        \* from + Pos(row.len(), 0) adds the columns and the rows
        to == CASE n = 0 -> from
                [] n = 1 -> Pos(from.x + Len(msg[1]), from.y + 0)
                [] OTHER -> Pos(Len(msg[n]), from.y + n - 1)
    IN
    IF from = to THEN Done(b, from)
    \* self.row_at(..) of a buffer without rows
    ELSE IF num_rows(b) = 0 THEN Panic(b, from)
    ELSE
    LET from_cx == rx_to_cx(b.rows[row_at(b, from.y) + 1], from.x, TabStop)
        to_cx == rx_to_cx(b.rows[row_at(b, to.y) + 1], to.x, TabStop)
        lines_removed == to.y - from.y
        fy == from.y + 1
    IN
    \* self.rows[from.y()]
    IF from.y >= num_rows(b) THEN Panic(b, from)
    ELSE IF lines_removed = 0 THEN
        \* chars.replace_range(from_cx..to_cx, "")
        IF from_cx > to_cx THEN Panic(b, from)
        ELSE
        LET c == b.rows[fy].chars
            c1 == SubSeq(c, 1, from_cx) \o SubSeq(c, to_cx + 1, Len(c))
        IN  Done(make_dirty([b EXCEPT !.rows[fy] =
                                update([b.rows[fy] EXCEPT !.chars = c1], TabStop, b.syntax)]),
                 from)
    \* self.rows.drain(from.y()+1..to.y())
    ELSE IF to.y > num_rows(b) THEN Panic(b, from)
    ELSE
    LET c == b.rows[fy].chars
        cut == SubSeq(c, 1, from_cx)
        drained == SubSeq(b.rows, 1, fy) \o SubSeq(b.rows, to.y + 1, num_rows(b))
    IN
    IF from.y + 1 < Len(drained) THEN
        LET nxt == drained[fy + 1].chars
        IN
        \* chars.replace_range(..to_cx, "")
        IF to_cx > Len(nxt) THEN Panic(b, from)
        ELSE
        LET joined == cut \o SubSeq(nxt, to_cx + 1, Len(nxt))
            rs == SubSeq(drained, 1, fy) \o SubSeq(drained, fy + 2, Len(drained))
        IN  Done(make_dirty([b EXCEPT !.rows = [rs EXCEPT ![fy] =
                update([rs[fy] EXCEPT !.chars = joined], TabStop, b.syntax)]]),
                 from)
    ELSE
        Done(make_dirty([b EXCEPT !.rows = [drained EXCEPT ![fy] =
            update([drained[fy] EXCEPT !.chars = cut], TabStop, b.syntax)]]),
             from)

\* TextBuffer::remove_rows
remove_rows(b, from, msg) ==
    remove_rows_no_diff(
        [b EXCEPT !.history = History_perform(b.history, Remove(from, msg))],
        from, msg)

\* TextBuffer::create_remove_msg_region(from, to): [ok, rows]
create_remove_msg_region(b, from, to) ==
    \* self.row_at(..) of a buffer without rows; to.y() - from.y() below zero
    IF num_rows(b) = 0 \/ to.y < from.y THEN [ok |-> FALSE, rows |-> <<>>]
    ELSE
    LET from_row == b.rows[row_at(b, from.y) + 1]
        to_row == b.rows[row_at(b, to.y) + 1]
        from_cx == rx_to_cx(from_row, from.x, TabStop)
        to_cx == rx_to_cx(to_row, to.x, TabStop)
    IN
    IF from.y = to.y THEN
        LET s == chars_at(from_row, Included(from_cx), Excluded(to_cx))
        IN  [ok |-> s.ok, rows |-> <<s.str>>]
    ELSE
        LET first == chars_at(from_row, Included(from_cx), Unbounded)
            mid == [k \in 1..(to.y - from.y - 1) |->
                        b.rows[row_at(b, from.y + k) + 1].chars]
            last == chars_at(to_row, Unbounded, Excluded(to_cx))
        IN  [ok |-> first.ok /\ last.ok, rows |-> <<first.str>> \o mid \o <<last.str>>]

rows_from(texts, syntax) ==
    [i \in 1..Len(texts) |-> Row_from_chars(texts[i], TabStop, syntax)]

\* the current diff of the history applied once more (redo) or taken back (undo)
apply_diff(b, d, taken_back) ==
    IF (d.tag = "Insert") = taken_back
    THEN remove_rows_no_diff(b, d.pos, d.rows)
    ELSE insert_rows_no_diff(b, d.pos, rows_from(d.rows, b.syntax))

\* TextBuffer::undo after the match on self.history.current(): r is what
\* remove_rows_no_diff / insert_rows_no_diff gave
undo_done(b, r) ==
    IF ~r.ok THEN [ok |-> FALSE, buf |-> b, ret |-> None]
    ELSE [ok |-> TRUE, buf |-> [r.buf EXCEPT !.history = History_undo(@).h],
          ret |-> IF History_undo(r.buf.history).some THEN Some(r.pos) ELSE None]

\* TextBuffer::undo: [ok, buf, ret] with ret an Option<Pos>
undo(b) ==
    IF ~History_has_current(b.history) THEN [ok |-> TRUE, buf |-> b, ret |-> None]
    ELSE undo_done(b, apply_diff(b, History_current(b.history), TRUE))

\* TextBuffer::redo after the match on self.history.current(): r is what
\* remove_rows_no_diff / insert_rows_no_diff gave
redo_done(b, r) ==
    IF ~r.ok THEN [ok |-> FALSE, buf |-> b, ret |-> None]
    ELSE [ok |-> TRUE, buf |-> r.buf, ret |-> Some(r.pos)]

\* redo without the `?` on self.history.redo(): the current diff is applied again
redo_unchecked(b) ==
    LET b1 == [b EXCEPT !.history = History_redo(@).h]
    IN
    IF ~History_has_current(b1.history) THEN [ok |-> TRUE, buf |-> b1, ret |-> None]
    ELSE redo_done(b, apply_diff(b1, History_current(b1.history), FALSE))

\* TextBuffer::redo
redo(b) ==
    LET b1 == [b EXCEPT !.history = History_redo(@).h]
    IN
    IF ~History_redo(b.history).some THEN [ok |-> TRUE, buf |-> b, ret |-> None]
    ELSE IF ~History_has_current(b1.history) THEN [ok |-> TRUE, buf |-> b1, ret |-> None]
    ELSE redo_done(b, apply_diff(b1, History_current(b1.history), FALSE))

-----------------------------------------------------------------------------
(* screen.rs: the cursor and the key handlers.  A handler yields           *)
(* [ok, buf, cx, cy] and, when it called a TextBuffer operation, the call. *)

\* Screen::move_cursor(key): [ok, pos]; ok = FALSE when get_row() is out of range
move_cursor(b, x, y, key) ==
    LET has_row == y < num_rows(b)
        left_row_missing == key = "Left" /\ x = 0 /\ y # 0 /\ y - 1 >= num_rows(b)
        m == CASE key = "Up" ->
                    IF y # 0 THEN Pos(x, y - 1) ELSE Pos(0, y)
               [] key = "Left" ->
                    IF x # 0 THEN Pos(x - 1, y)
                    ELSE IF y # 0 THEN Pos(size(b.rows[y]), y - 1)
                    ELSE Pos(x, y)
               [] key = "Down" ->
                    IF num_rows(b) > 0
                    THEN IF y < num_rows(b) - 1 THEN Pos(x, y + 1)
                         ELSE IF y = num_rows(b) - 1 THEN Pos(rsize(b.rows[y + 1]), y)
                         ELSE Pos(x, y)
                    ELSE Pos(x, y)
               [] key = "Right" ->
                    IF has_row
                    THEN IF x < size(b.rows[y + 1]) THEN Pos(x + 1, y)
                         ELSE IF y < num_rows(b) - 1 THEN Pos(0, y + 1)
                         ELSE Pos(x, y)
                    ELSE Pos(x, y)
        len == IF m.y >= num_rows(b) THEN 0 ELSE rsize(b.rows[m.y + 1])
    IN  IF left_row_missing THEN [ok |-> FALSE, pos |-> Pos(x, y)]
        ELSE [ok |-> TRUE, pos |-> Pos(IF m.x > len THEN len ELSE m.x, m.y)]

\* Screen::remove_char(is_delete): the region [from, to) it removes;
\* ok = FALSE when get_row() or rows()[..] is out of range,
\* act = FALSE when it returns without removing
remove_char_region(b, x, y, is_delete) ==
    LET from == Pos(x, y)
        stay == [ok |-> TRUE, act |-> FALSE, from |-> from, to |-> from]
    IN
    IF num_rows(b) = 0 THEN stay
    ELSE IF is_delete THEN
        \* self.get_row()
        IF y >= num_rows(b) THEN [stay EXCEPT !.ok = FALSE]
        ELSE IF x = rsize(b.rows[y + 1])
        THEN IF y = num_rows(b) - 1 THEN stay
             ELSE [stay EXCEPT !.act = TRUE, !.to = Pos(0, y + 1)]
        ELSE [stay EXCEPT !.act = TRUE, !.to = Pos(x + 1, y)]
    ELSE IF x = 0
        THEN IF y = 0 THEN stay
             \* self.editor.get_buf().rows()[from.y() - 1]
             ELSE IF y - 1 >= num_rows(b) THEN [stay EXCEPT !.ok = FALSE]
             ELSE [stay EXCEPT !.act = TRUE, !.to = from,
                               !.from = Pos(rsize(b.rows[y]), y - 1)]
        ELSE [stay EXCEPT !.act = TRUE, !.to = from, !.from = Pos(x - 1, y)]

-----------------------------------------------------------------------------
(* clipboard.rs: the Clipboard and the system clipboard behind it *)

\* what the system clipboard holds: a String, or nothing that can be read
NoContents == [some |-> FALSE, str |-> <<>>]

Contents(str) == [some |-> TRUE, str |-> str]

\* context.iter().for_each(|s| acc.push_str(s)): the strings one after the other
RECURSIVE push_strs(_)
push_strs(context) ==
    IF context = <<>> THEN <<>> ELSE Head(context) \o push_strs(Tail(context))

\* str::lines: the text cut at every line feed; a last line feed ends the last
\* line and starts no further one
RECURSIVE lines_from(_, _)
lines_from(str, line) ==
    IF str = <<>> THEN (IF line = <<>> THEN <<>> ELSE <<line>>)
    ELSE IF Head(str) = NEWLINE THEN <<line>> \o lines_from(Tail(str), <<>>)
    ELSE lines_from(Tail(str), Append(line, Head(str)))

lines(str) == lines_from(str, <<>>)

\* Clipboard::new, with the observation of no call
Clipboard_new(system) ==
    [rows |-> <<>>, system |-> system,
     op |-> "none", context |-> <<>>, set_ok |-> FALSE,
     after_save |-> FALSE, get_ok |-> FALSE, ret |-> <<>>]

ClipIdle == clip = Clipboard_new(NoContents)

\* Clipboard::save_context(context); set_ok: cli_clipboard::set_contents
\* returned Ok
save_context(c, context, set_ok) ==
    IF context = <<>> THEN c
    ELSE IF set_ok THEN [c EXCEPT !.system = Contents(push_strs(context))]
    ELSE [c EXCEPT !.rows = context]

\* Clipboard::load_context(); get_ok: cli_clipboard::get_contents returned Ok
load_context(c, get_ok) ==
    IF get_ok THEN lines(c.system.str) ELSE c.rows

-----------------------------------------------------------------------------
(* screen.rs / buffer.rs: select mode.  A Screen method yields [ok, buf, pos]: *)
(* ok = FALSE when an index into rows or hl is out of range.                  *)

\* the rows of the terminal left for the text; the buffers looked at are shorter,
\* so Screen::scroll leaves row_offset at the 0 Screen::new gave it
ScreenRows == 4

row_offset == 0

\* TextBuffer::set_anchor(Some(pos)) and TextBuffer::enter_select_mode
TextBuffer_enter_select_mode(b, pos) ==
    [b EXCEPT !.select_anchor = Some(pos), !.in_select_mode = TRUE]

\* TextBuffer::exit_select_mode
TextBuffer_exit_select_mode(b) ==
    [b EXCEPT !.in_select_mode = FALSE, !.select_anchor = None]

\* Screen::enter_select_mode
enter_select_mode(b, x, y) == TextBuffer_enter_select_mode(b, Pos(x, y))

\* rows_mut()[y].update_highlight(syntax) for every y of lo..=hi
rehighlight(b, lo, hi) ==
    [b EXCEPT !.rows = [k \in 1..num_rows(b) |->
                           IF lo < k /\ k <= hi + 1
                           THEN update_highlight(b.rows[k], b.syntax)
                           ELSE b.rows[k]]]

\* Screen::exit_select_mode with the cursor on row y
exit_select_mode(b, y) ==
    IF ~b.select_anchor.some
    THEN [ok |-> TRUE, buf |-> TextBuffer_exit_select_mode(b)]
    ELSE IF b.select_anchor.pos.y >= num_rows(b) \/ y >= num_rows(b)
    THEN [ok |-> FALSE, buf |-> b]
    ELSE [ok |-> TRUE,
          buf |-> TextBuffer_exit_select_mode(
                      rehighlight(b, IF b.select_anchor.pos.y < y
                                     THEN b.select_anchor.pos.y ELSE y,
                                  IF b.select_anchor.pos.y < y
                                     THEN y ELSE b.select_anchor.pos.y))]

\* hl[i].set_select_hl(SelectHighlight::Select) for i in from..to
select_hl(r, from, to) ==
    [r EXCEPT !.hl = [k \in 1..Len(r.hl) |->
                         IF from < k /\ k <= to
                         THEN [r.hl[k] EXCEPT !.select = "Select"]
                         ELSE r.hl[k]]]

\* Screen::select, the part of row k (counted from 1) between front and back
select_row(r, k, front, back) ==
    IF front.y = back.y
    THEN (IF k = front.y + 1 THEN select_hl(r, front.x, back.x) ELSE r)
    ELSE IF k = front.y + 1 THEN select_hl(r, front.x, rsize(r))
    ELSE IF k = back.y + 1 THEN select_hl(r, 0, back.x)
    ELSE IF front.y + 1 < k /\ k < back.y + 1 THEN select_hl(r, 0, Len(r.hl))
    ELSE r

\* the indices Screen::select uses on row k are in range
select_row_ok(r, k, front, back) ==
    IF front.y = back.y
    THEN k = front.y + 1 => (front.x < back.x => back.x <= Len(r.hl))
    ELSE /\ k = front.y + 1 => (front.x < rsize(r) => rsize(r) <= Len(r.hl))
         /\ k = back.y + 1 => back.x <= Len(r.hl)

select_between(b, front, back) ==
    IF back.y >= num_rows(b) THEN [ok |-> FALSE, buf |-> b]
    ELSE [ok |-> \A k \in 1..num_rows(b) : select_row_ok(b.rows[k], k, front, back),
          buf |-> [b EXCEPT !.rows = [k \in 1..num_rows(b) |->
                                         select_row(b.rows[k], k, front, back)]]]

\* Screen::select with the cursor at (x, y)
select(b, x, y) ==
    IF ~b.select_anchor.some \/ b.select_anchor.pos = Pos(x, y)
    THEN [ok |-> TRUE, buf |-> b]
    ELSE IF PosLess(b.select_anchor.pos, Pos(x, y))
    THEN select_between(b, b.select_anchor.pos, Pos(x, y))
    ELSE select_between(b, Pos(x, y), b.select_anchor.pos)

\* the end of move_cursor and move_cursor_select: the cursor jumps back to the
\* end of a shorter line
clamp_cx(b, p) ==
    IF p.y >= num_rows(b) THEN Pos(0, p.y)
    ELSE IF p.x > rsize(b.rows[p.y + 1]) THEN Pos(rsize(b.rows[p.y + 1]), p.y)
    ELSE p

\* Screen::move_cursor_select(key), after its call of exit_select_mode: front and
\* back are the smaller and the larger of the anchor and the cursor
move_cursor_select_to(b, key, front, back) ==
    clamp_cx(b, CASE key = "Up" -> Pos(front.x, IF front.y > 0 THEN front.y - 1 ELSE front.y)
                  [] key = "Left" -> front
                  [] key = "Down" ->
                        Pos(back.x, IF back.y < num_rows(b) - 1 THEN back.y + 1 ELSE back.y)
                  [] key = "Right" -> back)

\* Screen::move_cursor_select(key)
move_cursor_select(b, x, y, key) ==
    [ok |-> b.select_anchor.some /\ exit_select_mode(b, y).ok,
     buf |-> exit_select_mode(b, y).buf,
     pos |-> IF PosLess(b.select_anchor.pos, Pos(x, y))
             THEN move_cursor_select_to(b, key, b.select_anchor.pos, Pos(x, y))
             ELSE move_cursor_select_to(b, key, Pos(x, y), b.select_anchor.pos)]

\* move_cursor(key) called n times
RECURSIVE move_cursor_times(_, _, _, _)
move_cursor_times(b, p, key, n) ==
    IF n = 0 THEN [ok |-> TRUE, pos |-> p]
    ELSE IF ~move_cursor(b, p.x, p.y, key).ok THEN [ok |-> FALSE, pos |-> p]
    ELSE move_cursor_times(b, move_cursor(b, p.x, p.y, key).pos, key, n - 1)

\* Screen::get_select_region: the anchor and the cursor, sorted;
\* ok = FALSE when select_anchor().unwrap() finds None
get_select_region(b, x, y) ==
    [ok |-> b.select_anchor.some,
     from |-> IF PosLess(Pos(x, y), b.select_anchor.pos) THEN Pos(x, y)
              ELSE b.select_anchor.pos,
     to |-> IF PosLess(Pos(x, y), b.select_anchor.pos) THEN b.select_anchor.pos
            ELSE Pos(x, y)]

\* Screen::get_region_chars(from, to): [ok, rows]
get_region_chars(b, from, to) ==
    IF from = to THEN [ok |-> TRUE, rows |-> <<>>]
    \* buf.row_at(..) of a buffer without rows; to.y() - from.y() below zero
    ELSE IF num_rows(b) = 0 \/ to.y < from.y THEN [ok |-> FALSE, rows |-> <<>>]
    ELSE
    LET from_row == b.rows[row_at(b, from.y) + 1]
        to_row == b.rows[row_at(b, to.y) + 1]
        from_cx == rx_to_cx(from_row, from.x, TabStop)
        to_cx == rx_to_cx(to_row, to.x, TabStop)
    IN
    IF from.y = to.y THEN
        LET s == chars_at(from_row, Included(from_cx), Excluded(to_cx))
        IN  [ok |-> s.ok, rows |-> <<s.str>>]
    \* buf.rows()[from.y()].chars()[from_cx..]
    ELSE IF from.y >= num_rows(b) \/ from_cx > Len(b.rows[from.y + 1].chars)
    THEN [ok |-> FALSE, rows |-> <<>>]
    ELSE
        LET first == SubSeq(b.rows[from.y + 1].chars, from_cx + 1,
                            Len(b.rows[from.y + 1].chars))
            mid == [k \in 1..(to.y - from.y - 1) |->
                        b.rows[row_at(b, from.y + k) + 1].chars]
            last == chars_at(to_row, Unbounded, Excluded(to_cx))
        IN  [ok |-> last.ok, rows |-> <<first>> \o mid \o <<last.str>>]

-----------------------------------------------------------------------------
(* Observation of the operations *)

EditOps == {"insert_rows", "remove_rows"}

LogLen == 3

Push(l, e) ==
    IF Len(l) >= LogLen THEN Append(Tail(l), e) ELSE Append(l, e)

Entry(name, pos, to, arg, ret) ==
    [op |-> name, pos |-> pos, to |-> to, arg |-> arg, ret |-> ret,
     pre |-> chars_of(buf.rows)]

\* the run of consecutive edits goes on when nothing but edits came since it began
InRun == undos = 0 /\ (IF log = <<>> THEN TRUE ELSE Last(log).op \in EditOps)

\* what a call of a TextBuffer operation leaves: the buffer or the panic,
\* and the observation of the call
Call(name, pos, to, arg, ok, b, ret) ==
    /\ buf' = IF ok THEN b ELSE buf
    /\ panicked' = IF ok THEN NoPanic ELSE name
    /\ log' = Push(log, Entry(name, pos, to, arg, IF ok THEN ret ELSE None))
    /\ edits' = CASE name \in EditOps -> IF InRun THEN edits + 1 ELSE 1
                  [] name = "undo" -> edits
                  [] OTHER -> 0
    /\ undos' = CASE name \in EditOps -> 0
                  [] name = "undo" -> IF edits = 0 THEN 0 ELSE undos + 1
                  [] OTHER -> 0

\* a call that returns a Pos: r = [ok, buf, pos]
CallPos(name, pos, to, arg, r) == Call(name, pos, to, arg, r.ok, r.buf, Some(r.pos))

\* a call that returns an Option<Pos>: r = [ok, buf, ret]
CallOpt(name, r) == Call(name, Pos(0, 0), Pos(0, 0), <<>>, r.ok, r.buf, r.ret)

\* a call made with the rows of create_remove_msg_region, which may panic first
after_msg(msg, b, from, r) == IF msg.ok THEN r ELSE Panic(b, from)

Alive == panicked = NoPanic

\* no call of a Row method made yet
NoCall ==
    [op |-> "none", a |-> 0, b |-> 0, ret |-> 0,
     start |-> Unbounded, end |-> Unbounded, str |-> <<>>, before |-> Row_new]

\* a call of a Row method on numbers: its name, its arguments and what it returned
RowCall(name, a, b, ret) == [NoCall EXCEPT !.op = name, !.a = a, !.b = b, !.ret = ret]

\* a call of chars_at / rchars_at: the bounds of its range and the string returned
RangeCall(name, start, end, str) ==
    [NoCall EXCEPT !.op = name, !.start = start, !.end = end, !.str = str]

\* the n-th call of update in a row, made on the row `before`
UpdateCall(n, before) == [NoCall EXCEPT !.op = "update", !.a = n, !.before = before]

-----------------------------------------------------------------------------
(* Inputs *)

\* the files opened: no rows, rows with and without tabs, an empty row
InitTexts ==
    { <<>>,
      << <<"a", "b">> >>,
      << <<"x", "y">> >>,
      << <<"a">>, <<"b", "c">> >>,
      << <<"a">>, <<>>, <<"b">> >>,
      << <<TAB, "b">> >> }

\* the row texts given to insert_rows: a character, a tab, two rows,
\* the two empty rows of Enter, no row at all
InsertTexts ==
    { << <<"x">> >>,
      << <<TAB>> >>,
      << <<"a", "b">>, <<"c", "d">> >>,
      << <<>>, <<>> >>,
      <<>> }

\* the characters typed
TypedChars == {"x"}

\* TextBuffer::open: one Row per line of the file, not dirty
open(texts) ==
    [TextBuffer_new EXCEPT !.rows = rows_from(texts, TextBuffer_new.syntax),
                           !.is_dirty = FALSE]

\* no Row is looked at on its own
RowIdle ==
    /\ one_row = Row_new
    /\ config = [tab_stop |-> TabStop, syntax |-> Syntax_UNKNOWN]
    /\ call = NoCall

Init ==
    /\ \E t \in InitTexts : buf = open(t)
    /\ cx = 0 /\ cy = 0
    /\ log = <<>>
    /\ edits = 0 /\ undos = 0 /\ steps = 0
    /\ panicked = NoPanic
    /\ RowIdle
    /\ HistIdle
    /\ EditorIdle
    /\ ClipIdle

-----------------------------------------------------------------------------
(* The TextBuffer operations called directly *)

\* insert_rows(pos, rows) at a char position of a row, or one row below the last
Api_insert_rows ==
    /\ Alive /\ steps < MaxOps
    /\ UNCHANGED <<row_vars, hist, editor, clip>>
    /\ \E new \in InsertTexts, y \in 0..num_rows(buf) :
        \E x \in 0..(IF num_rows(buf) = 0 THEN 0 ELSE size(buf.rows[row_at(buf, y) + 1])) :
            CallPos("insert_rows", Pos(x, y), Pos(x, y), new,
                    insert_rows(buf, Pos(x, y), rows_from(new, buf.syntax)))
    /\ steps' = steps + 1
    /\ UNCHANGED <<cx, cy>>

\* remove_rows(from, create_remove_msg_region(from, to)) for from <= to
Api_remove_rows ==
    /\ Alive /\ steps < MaxOps
    /\ UNCHANGED <<row_vars, hist, editor, clip>>
    /\ \E y1 \in 0..(num_rows(buf) - 1), y2 \in 0..(num_rows(buf) - 1) :
        \E x1 \in 0..rsize(buf.rows[y1 + 1]), x2 \in 0..rsize(buf.rows[y2 + 1]) :
            LET from == Pos(x1, y1)
                to == Pos(x2, y2)
                msg == create_remove_msg_region(buf, from, to)
            IN  /\ PosLeq(from, to)
                /\ CallPos("remove_rows", from, to, msg.rows,
                           after_msg(msg, buf, from, remove_rows(buf, from, msg.rows)))
    /\ steps' = steps + 1
    /\ UNCHANGED <<cx, cy>>

Api_undo ==
    /\ Alive /\ steps < MaxOps
    /\ UNCHANGED <<row_vars, hist, editor, clip>>
    /\ CallOpt("undo", undo(buf))
    /\ steps' = steps + 1
    /\ UNCHANGED <<cx, cy>>

Api_redo ==
    /\ Alive /\ steps < MaxOps
    /\ UNCHANGED <<row_vars, hist, editor, clip>>
    /\ CallOpt("redo", redo(buf))
    /\ steps' = steps + 1
    /\ UNCHANGED <<cx, cy>>

Next == Api_insert_rows \/ Api_remove_rows \/ Api_undo \/ Api_redo

Spec == Init /\ [][Next]_vars

-----------------------------------------------------------------------------
(* The same operations in shorter behaviours, on fewer files *)

\* the files opened: no rows, one row without a tab, one row with a tab
EditTexts ==
    { <<>>,
      << <<"x", "y">> >>,
      << <<TAB, "b">> >> }

InitEdit ==
    /\ \E t \in EditTexts : buf = open(t)
    /\ cx = 0 /\ cy = 0
    /\ log = <<>>
    /\ edits = 0 /\ undos = 0 /\ steps = 0
    /\ panicked = NoPanic
    /\ RowIdle
    /\ HistIdle
    /\ EditorIdle
    /\ ClipIdle

Edit_insert_rows == steps < MaxEdits /\ Api_insert_rows

Edit_remove_rows == steps < MaxEdits /\ Api_remove_rows

Edit_undo == steps < MaxEdits /\ Api_undo

Edit_redo == steps < MaxEdits /\ Api_redo

EditNext == Edit_insert_rows \/ Edit_remove_rows \/ Edit_undo \/ Edit_redo

SpecEdit == InitEdit /\ [][EditNext]_vars

-----------------------------------------------------------------------------
(* The key events of Screen::process_key_event.  A handler that finds the  *)
(* buffer in select mode first removes the selected region.                *)

\* Screen::insert_char(ch)
insert_char(b, x, y, ch) == insert_rows(b, Pos(x, y), <<Row_from_chars(<<ch>>, TabStop, b.syntax)>>)

\* the cursor takes the position a TextBuffer operation returned
CursorTo(ok, pos) ==
    /\ cx' = IF ok THEN pos.x ELSE cx
    /\ cy' = IF ok THEN pos.y ELSE cy

\* a handler's call of an operation that returns a Pos: r = [ok, buf, pos]
Screen_call(name, pos, to, arg, r) ==
    /\ CallPos(name, pos, to, arg, r)
    /\ CursorTo(r.ok, r.pos)

\* a handler's call of undo / redo: r = [ok, buf, ret]
Screen_call_opt(name, r) ==
    /\ CallOpt(name, r)
    /\ CursorTo(r.ok /\ r.ret.some, r.ret.pos)

\* a handler's call of insert_rows at the cursor; the cursor takes the result
Screen_insert(new) ==
    Screen_call("insert_rows", Pos(cx, cy), Pos(cx, cy), chars_of(new),
                insert_rows(buf, Pos(cx, cy), new))

\* KeyCode::Char(ch): insert_char(ch)
Screen_type(ch) ==
    Screen_call("insert_rows", Pos(cx, cy), Pos(cx, cy), << <<ch>> >>,
                insert_char(buf, cx, cy, ch))

\* KeyCode::Backspace | KeyCode::Delete: remove_char(code == Delete)
Screen_remove_char(is_delete) ==
    LET reg == remove_char_region(buf, cx, cy, is_delete)
        msg == create_remove_msg_region(buf, reg.from, reg.to)
    IN  IF ~reg.ok THEN
            /\ panicked' = "remove_char"
            /\ steps' = steps + 1
            /\ UNCHANGED <<buf, cx, cy, log, edits, undos>>
        ELSE IF ~reg.act THEN
            /\ steps' = steps + 1
            /\ UNCHANGED <<buf, cx, cy, log, edits, undos, panicked>>
        ELSE
            /\ Screen_call("remove_rows", reg.from, reg.to, msg.rows,
                           after_msg(msg, buf, reg.from,
                                     remove_rows(buf, reg.from, msg.rows)))
            /\ steps' = steps + 1

\* a handler in select mode: remove_rows(from, msg) of the selected region reg
select_removed(b, reg, msg) ==
    IF ~reg.ok THEN Panic(b, reg.from)
    ELSE after_msg(msg, b, reg.from, remove_rows(b, reg.from, msg.rows))

\* Backspace / Delete in select mode: the region is removed, the cursor takes
\* the position returned; select mode is not left
Screen_remove_region(reg, msg) ==
    /\ Screen_call("remove_rows", reg.from, reg.to, msg.rows, select_removed(buf, reg, msg))
    /\ steps' = steps + 1

Screen_remove_selection(reg) ==
    Screen_remove_region(reg, create_remove_msg_region(buf, reg.from, reg.to))

\* Tab / Char in select mode after remove_rows gave r1: insert_char(ch) at the
\* cursor r1 left gives r2; both calls are observed
Screen_then_type(reg, msg, r1, r2, ch) ==
    /\ buf' = IF r2.ok THEN r2.buf ELSE buf
    /\ panicked' = IF r2.ok THEN NoPanic ELSE "insert_rows"
    /\ log' = Push(Push(log, Entry("remove_rows", reg.from, reg.to, msg.rows, Some(r1.pos))),
                   [Entry("insert_rows", r1.pos, r1.pos, << <<ch>> >>,
                          IF r2.ok THEN Some(r2.pos) ELSE None)
                    EXCEPT !.pre = chars_of(r1.buf.rows)])
    /\ edits' = (IF InRun THEN edits + 1 ELSE 1) + 1
    /\ undos' = 0
    /\ cx' = IF r2.ok THEN r2.pos.x ELSE r1.pos.x
    /\ cy' = IF r2.ok THEN r2.pos.y ELSE r1.pos.y

\* Tab / Char in select mode: the region is removed, then the character is
\* inserted
Screen_replace_region(reg, msg, r1, ch) ==
    IF ~r1.ok THEN Screen_call("remove_rows", reg.from, reg.to, msg.rows, r1)
    ELSE Screen_then_type(reg, msg, r1, insert_char(r1.buf, r1.pos.x, r1.pos.y, ch), ch)

Screen_replace_msg(reg, msg, ch) ==
    Screen_replace_region(reg, msg, select_removed(buf, reg, msg), ch)

Screen_replace_selection(reg, ch) ==
    Screen_replace_msg(reg, create_remove_msg_region(buf, reg.from, reg.to), ch)

\* KeyCode::Tab and KeyCode::Char(ch)
Screen_char(ch) ==
    IF buf.in_select_mode THEN Screen_replace_selection(get_select_region(buf, cx, cy), ch)
    ELSE Screen_type(ch)

\* Screen::undo
Screen_undo == Screen_call_opt("undo", undo(buf))

\* Screen::redo
Screen_redo == Screen_call_opt("redo", redo(buf))

Key_Char ==
    /\ Running /\ steps < MaxKeyOps
    /\ UNCHANGED <<row_vars, hist, clip>> /\ KeyHandled
    /\ \E ch \in TypedChars : Screen_char(ch)
    /\ steps' = steps + 1

Key_Tab ==
    /\ Running /\ steps < MaxKeyOps
    /\ UNCHANGED <<row_vars, hist, clip>> /\ KeyHandled
    /\ Screen_char(TAB)
    /\ steps' = steps + 1

Key_Enter ==
    /\ Running /\ steps < MaxKeyOps
    /\ UNCHANGED <<row_vars, hist, clip>> /\ KeyHandled
    /\ Screen_insert(<<Row_new, Row_new>>)
    /\ steps' = steps + 1

Key_Backspace ==
    /\ Running /\ steps < MaxKeyOps
    /\ UNCHANGED <<row_vars, hist, clip>> /\ KeyHandled
    /\ IF buf.in_select_mode THEN Screen_remove_selection(get_select_region(buf, cx, cy))
       ELSE Screen_remove_char(FALSE)

Key_Delete ==
    /\ Running /\ steps < MaxKeyOps
    /\ UNCHANGED <<row_vars, hist, clip>> /\ KeyHandled
    /\ IF buf.in_select_mode THEN Screen_remove_selection(get_select_region(buf, cx, cy))
       ELSE Screen_remove_char(TRUE)

\* what a key that only moves the cursor or the selection leaves: r = [ok, buf, pos]
Screen_moved(name, r) ==
    /\ buf' = IF r.ok THEN r.buf ELSE buf
    /\ cx' = IF r.ok THEN r.pos.x ELSE cx
    /\ cy' = IF r.ok THEN r.pos.y ELSE cy
    /\ panicked' = IF r.ok THEN NoPanic ELSE name
    /\ UNCHANGED <<log, edits, undos>>

Key_Arrow ==
    /\ Running /\ steps < MaxKeyOps
    /\ UNCHANGED <<row_vars, hist, clip>> /\ KeyHandled
    /\ \E key \in {"Up", "Down", "Left", "Right"} :
        IF buf.in_select_mode
        THEN Screen_moved("move_cursor_select", move_cursor_select(buf, cx, cy, key))
        ELSE LET m == move_cursor(buf, cx, cy, key)
             IN  /\ cx' = m.pos.x
                 /\ cy' = m.pos.y
                 /\ panicked' = IF m.ok THEN NoPanic ELSE "move_cursor"
                 /\ UNCHANGED <<buf, log, edits, undos>>
    /\ steps' = steps + 1

Key_Undo ==
    /\ Running /\ steps < MaxKeyOps
    /\ UNCHANGED <<row_vars, hist, clip>> /\ KeyHandled
    /\ Screen_undo
    /\ steps' = steps + 1

Key_Redo ==
    /\ Running /\ steps < MaxKeyOps
    /\ UNCHANGED <<row_vars, hist, clip>> /\ KeyHandled
    /\ Screen_redo
    /\ steps' = steps + 1

KeysNext ==
    \/ Key_Char \/ Key_Tab \/ Key_Enter \/ Key_Backspace \/ Key_Delete
    \/ Key_Arrow \/ Key_Undo \/ Key_Redo

SpecKeys == Init /\ [][KeysNext]_vars

-----------------------------------------------------------------------------
(* The key events with saving and opening a file between them.  The files  *)
(* have no extension: get_file_ext() is None and the syntax stays.         *)

\* Ctrl+S on a buffer that has a file name: Screen::save calls save_file.
\* The text written is observed as the one row of arg
Key_Save ==
    /\ Running /\ steps < MaxKeyOps
    /\ UNCHANGED <<row_vars, hist, clip>> /\ KeyHandled
    /\ Call("save_file", Pos(0, 0), Pos(0, 0), << rows_to_string(buf.rows) >>,
            TRUE, make_clean(buf), None)
    /\ steps' = steps + 1
    /\ UNCHANGED <<cx, cy>>

\* Ctrl+O: a file opened into a new TextBuffer, which becomes the current one
Key_Open ==
    /\ Running /\ steps < MaxKeyOps
    /\ UNCHANGED <<row_vars, hist, clip>> /\ KeyHandled
    /\ \E t \in EditTexts : Call("open", Pos(0, 0), Pos(0, 0), t, TRUE, open(t), None)
    /\ steps' = steps + 1
    /\ cx' = 0 /\ cy' = 0

\* the keys that edit, undo, redo, save and open: the cursor is moved by the edits
FileNext ==
    \/ Key_Char \/ Key_Tab \/ Key_Enter \/ Key_Backspace \/ Key_Delete
    \/ Key_Undo \/ Key_Redo \/ Key_Save \/ Key_Open

SpecFile == InitEdit /\ [][FileNext]_vars

-----------------------------------------------------------------------------
(* Quitting and closing.  The Editor holds the one buffer it was started   *)
(* with, so `some buffer is dirty` is buf.is_dirty.                        *)

\* Ctrl+Q: the warning with quit_times lowered and an early return that skips
\* the reset of both counters, or std::process::exit
Key_Quit ==
    /\ Running /\ steps < MaxKeyOps
    /\ UNCHANGED <<buf, cx, cy, log, edits, undos, panicked, row_vars, hist, clip>>
    /\ editor' = IF buf.is_dirty /\ editor.quit_times > 0
                 THEN [editor EXCEPT !.quit_times = @ - 1,
                                     !.quit_warned = @ + 1, !.close_warned = 0]
                 ELSE [editor EXCEPT !.exited = TRUE]
    /\ steps' = steps + 1

\* Ctrl+W: the warning with close_times lowered and an early return that
\* skips the reset of both counters, or the buffer is removed and, being the
\* last one, replaced by TextBuffer::new with the cursor at (0, 0)
Key_Close ==
    /\ Running /\ steps < MaxKeyOps
    /\ UNCHANGED <<row_vars, hist, clip>>
    /\ IF buf.is_dirty /\ editor.close_times > 0
       THEN /\ editor' = [editor EXCEPT !.close_times = @ - 1,
                                        !.close_warned = @ + 1, !.quit_warned = 0]
            /\ UNCHANGED <<buf, cx, cy, log, edits, undos, panicked>>
       ELSE /\ Call("close", Pos(0, 0), Pos(0, 0), <<>>, TRUE, TextBuffer_new, None)
            /\ cx' = 0 /\ cy' = 0
            /\ KeyHandled
    /\ steps' = steps + 1

\* the Editor before its first key event: Editor::new leaves each counter at
\* some value up to the configured one
InitQuit ==
    /\ \E t \in InitTexts : buf = open(t)
    /\ cx = 0 /\ cy = 0
    /\ log = <<>>
    /\ edits = 0 /\ undos = 0 /\ steps = 0
    /\ panicked = NoPanic
    /\ RowIdle
    /\ HistIdle
    /\ \E q \in 0..QuitTimes, c \in 0..CloseTimes :
           editor = [Editor_new EXCEPT !.quit_times = q, !.close_times = c]
    /\ ClipIdle

QuitNext == Key_Quit \/ Key_Close \/ Key_Char \/ Key_Arrow \/ Key_Save \/ Key_Undo

SpecQuit == InitQuit /\ [][QuitNext]_vars

-----------------------------------------------------------------------------
(* The keys that select and that move the cursor, in and out of select mode *)

\* Shift + arrow, after self.move_cursor(key) has given m: the row the cursor
\* came to is re-highlighted, then select() marks from the anchor to the cursor
shift_arrow_moved(b, m) ==
    IF ~m.ok \/ m.pos.y >= num_rows(b) THEN [ok |-> FALSE, buf |-> b, pos |-> m.pos]
    ELSE [ok |-> select(rehighlight(b, m.pos.y, m.pos.y), m.pos.x, m.pos.y).ok,
          buf |-> select(rehighlight(b, m.pos.y, m.pos.y), m.pos.x, m.pos.y).buf,
          pos |-> m.pos]

\* Shift + arrow in a buffer that has its anchor
shift_arrow_from(b, x, y, key) ==
    IF y >= num_rows(b) THEN [ok |-> FALSE, buf |-> b, pos |-> Pos(x, y)]
    ELSE shift_arrow_moved(rehighlight(b, y, y), move_cursor(b, x, y, key))

\* Shift + Up / Down / Left / Right
Screen_shift_arrow(b, x, y, key) ==
    IF b.in_select_mode THEN shift_arrow_from(b, x, y, key)
    ELSE shift_arrow_from(enter_select_mode(b, x, y), x, y, key)

\* Ctrl+A once the anchor is at (0, 0): the cursor goes to the end of the last row
select_all_from(b) ==
    IF num_rows(b) = 0 THEN [ok |-> FALSE, buf |-> b, pos |-> Pos(0, 0)]
    ELSE [ok |-> select(b, rsize(b.rows[num_rows(b)]), num_rows(b) - 1).ok,
          buf |-> select(b, rsize(b.rows[num_rows(b)]), num_rows(b) - 1).buf,
          pos |-> Pos(rsize(b.rows[num_rows(b)]), num_rows(b) - 1)]

\* Ctrl+A
Screen_select_all(b, y) ==
    IF ~b.in_select_mode THEN select_all_from(enter_select_mode(b, 0, 0))
    ELSE IF ~exit_select_mode(b, y).ok THEN [ok |-> FALSE, buf |-> b, pos |-> Pos(0, 0)]
    ELSE select_all_from(enter_select_mode(exit_select_mode(b, y).buf, 0, 0))

\* PageUp / PageDown: the cursor goes to the top or the bottom row of the
\* screen, then moves Up or Down screen_rows times
Screen_page(b, x, y, code) ==
    [buf |-> b] @@
    (IF code = "PageUp"
     THEN move_cursor_times(b, Pos(x, row_offset), "Up", ScreenRows)
     ELSE move_cursor_times(
              b, Pos(x, IF num_rows(b) = 0 THEN 0
                        ELSE IF num_rows(b) - 1 < row_offset + ScreenRows - 1
                        THEN num_rows(b) - 1 ELSE row_offset + ScreenRows - 1),
              "Down", ScreenRows))

\* Home / End
Screen_home_end(b, x, y, code) ==
    [ok |-> TRUE, buf |-> b,
     pos |-> IF code = "Home" THEN Pos(0, y)
             ELSE IF y < num_rows(b) THEN Pos(size(b.rows[y + 1]), y)
             ELSE Pos(x, y)]

Key_ShiftArrow ==
    /\ Running /\ steps < MaxKeyOps
    /\ UNCHANGED <<row_vars, hist, clip>> /\ KeyHandled
    /\ \E key \in {"Up", "Down", "Left", "Right"} :
           Screen_moved("select", Screen_shift_arrow(buf, cx, cy, key))
    /\ steps' = steps + 1

Key_SelectAll ==
    /\ Running /\ steps < MaxKeyOps
    /\ UNCHANGED <<row_vars, hist, clip>> /\ KeyHandled
    /\ Screen_moved("select_all", Screen_select_all(buf, cy))
    /\ steps' = steps + 1

Key_Page ==
    /\ Running /\ steps < MaxKeyOps
    /\ UNCHANGED <<row_vars, hist, clip>> /\ KeyHandled
    /\ \E code \in {"PageUp", "PageDown"} :
           Screen_moved("move_cursor", Screen_page(buf, cx, cy, code))
    /\ steps' = steps + 1

Key_HomeEnd ==
    /\ Running /\ steps < MaxKeyOps
    /\ UNCHANGED <<row_vars, hist, clip>> /\ KeyHandled
    /\ \E code \in {"Home", "End"} :
           Screen_moved("home_end", Screen_home_end(buf, cx, cy, code))
    /\ steps' = steps + 1

SelectNext == Key_ShiftArrow \/ Key_SelectAll \/ Key_Page \/ Key_HomeEnd \/ Key_Arrow

SpecSelect == Init /\ [][SelectNext]_vars

\* Screen::copy in select mode, the region reg giving the context ctx:
\* clipboard_mut().save_context(&context[..])
Screen_copy_context(reg, ctx) ==
    IF ~reg.ok \/ ~ctx.ok THEN panicked' = "copy" /\ UNCHANGED clip
    ELSE /\ UNCHANGED panicked
         /\ \E set_ok \in IF ctx.rows = <<>> THEN {FALSE} ELSE BOOLEAN :
                clip' = [save_context(clip, ctx.rows, set_ok) EXCEPT
                             !.op = "save_context", !.context = ctx.rows, !.set_ok = set_ok,
                             !.after_save = FALSE, !.get_ok = FALSE, !.ret = <<>>]

Screen_copy(reg) == Screen_copy_context(reg, get_region_chars(buf, reg.from, reg.to))

\* Ctrl+C: Screen::copy, which returns at once outside select mode
Key_Copy ==
    /\ Running /\ steps < MaxKeyOps
    /\ UNCHANGED <<row_vars, hist>> /\ KeyHandled
    /\ UNCHANGED <<buf, cx, cy, log, edits, undos>>
    /\ IF buf.in_select_mode THEN Screen_copy(get_select_region(buf, cx, cy))
       ELSE UNCHANGED <<panicked, clip>>
    /\ steps' = steps + 1

\* the keys that select, the arrows and Ctrl+C
CopyNext == Key_ShiftArrow \/ Key_SelectAll \/ Key_Arrow \/ Key_Copy

SpecCopy == Init /\ [][CopyNext]_vars

\* the keys that select and the keys that edit
ScreenNext ==
    \/ Key_ShiftArrow \/ Key_SelectAll \/ Key_Arrow
    \/ Key_Char \/ Key_Tab \/ Key_Backspace \/ Key_Delete \/ Key_Undo \/ Key_Redo

SpecScreen == Init /\ [][ScreenNext]_vars

-----------------------------------------------------------------------------
(* Typing into a new buffer until the applied stack is full, then undoing  *)

InitDepth ==
    /\ buf = TextBuffer_new
    /\ cx = 0 /\ cy = 0
    /\ log = <<>>
    /\ edits = 0 /\ undos = 0 /\ steps = 0
    /\ panicked = NoPanic
    /\ RowIdle
    /\ HistIdle
    /\ EditorIdle
    /\ ClipIdle

\* typing goes on as long as nothing was undone
Depth_Type ==
    /\ Running /\ steps < MaxTyped /\ InRun
    /\ UNCHANGED <<row_vars, hist, clip>> /\ KeyHandled
    /\ Screen_type("x")
    /\ steps' = steps + 1

Depth_Undo ==
    /\ Running /\ undos < MaxUndos
    /\ UNCHANGED <<row_vars, hist, clip>> /\ KeyHandled
    /\ Screen_undo
    /\ UNCHANGED steps

Depth_Redo ==
    /\ Running
    /\ UNCHANGED <<row_vars, hist, clip>> /\ KeyHandled
    /\ Screen_redo
    /\ UNCHANGED steps

DepthNext == Depth_Type \/ Depth_Undo \/ Depth_Redo

SpecDepth == InitDepth /\ [][DepthNext]_vars

-----------------------------------------------------------------------------
(* A Row on its own: built from a text, updated, converted and sliced      *)

\* the characters of the row texts: two letters and the tab
RowChars == {"a", "b", TAB}

\* the texts of at most n characters
TextsUpTo(n) == UNION {[1..k -> RowChars] : k \in 0..n}

\* the ranges given to chars_at / rchars_at: a..b, a.., ..b, .., a..=b, ..=b
RangeStarts == {Unbounded} \cup {Included(a) : a \in 0..(MaxRowLen + 1)}

RangeEnds ==
    {Unbounded} \cup {Excluded(b) : b \in 0..(MaxRowLen + 1)}
                \cup {Included(b) : b \in 0..(MaxRowLen + 1)}

\* Row::from_chars before its call of update: chars set, render and hl not built
InitRow ==
    /\ buf = TextBuffer_new
    /\ cx = 0 /\ cy = 0
    /\ log = <<>>
    /\ edits = 0 /\ undos = 0 /\ steps = 0
    /\ panicked = NoPanic
    /\ \E t \in TextsUpTo(MaxRowLen) : one_row = [Row_new EXCEPT !.chars = t]
    /\ \E ts \in 1..MaxTabStop : config = [tab_stop |-> ts, syntax |-> Syntax_UNKNOWN]
    /\ call = NoCall
    /\ HistIdle
    /\ EditorIdle
    /\ ClipIdle

\* Row::from_chars has made its call of update: the row is one a caller can hold.
\* A method that only reads leaves the row as it is: the reads are observed one by
\* one, each on the row as it was updated
AtRest == call.op = "update"

\* the number of calls of update made so far, one after the other
Updates == IF call.op = "update" THEN call.a ELSE 0

\* row.update(config, syntax): the call records the row as it was before
Row_update ==
    /\ Alive /\ call.op \in {"none", "update"}
    /\ Updates < MaxUpdates
    /\ LET r == update(one_row, config.tab_stop, config.syntax)
       IN  /\ one_row' = r
           /\ panicked' = IF update_highlight_ok(r, config.syntax)
                          THEN NoPanic ELSE "update_highlight"
    /\ call' = UpdateCall(Updates + 1, one_row)
    /\ UNCHANGED <<buf, cx, cy, log, edits, undos, steps, config, hist, editor, clip>>

\* row.cx_to_rx(cx, config)
Row_cx_to_rx ==
    /\ Alive /\ AtRest
    /\ \E c \in 0..size(one_row) :
        call' = RowCall("cx_to_rx", c, 0, cx_to_rx(one_row, c, config.tab_stop))
    /\ UNCHANGED <<buffer_vars, one_row, config, hist, editor, clip>>

\* row.rx_to_cx(rx, config)
Row_rx_to_cx ==
    /\ Alive /\ AtRest
    /\ \E rx \in 0..(cx_to_rx(one_row, size(one_row), config.tab_stop) + 1) :
        call' = RowCall("rx_to_cx", rx, 0, rx_to_cx(one_row, rx, config.tab_stop))
    /\ UNCHANGED <<buffer_vars, one_row, config, hist, editor, clip>>

\* row.chars_at(range)
Row_chars_at ==
    /\ Alive /\ AtRest
    /\ \E start \in RangeStarts, end \in RangeEnds :
        LET r == chars_at(one_row, start, end)
        IN  /\ call' = RangeCall("chars_at", start, end, r.str)
            /\ panicked' = IF r.ok THEN NoPanic ELSE "chars_at"
    /\ UNCHANGED <<buf, cx, cy, log, edits, undos, steps, one_row, config, hist, editor, clip>>

\* row.rchars_at(range)
Row_rchars_at ==
    /\ Alive /\ AtRest
    /\ \E start \in RangeStarts, end \in RangeEnds :
        LET r == rchars_at(one_row, start, end)
        IN  /\ call' = RangeCall("rchars_at", start, end, r.str)
            /\ panicked' = IF r.ok THEN NoPanic ELSE "rchars_at"
    /\ UNCHANGED <<buf, cx, cy, log, edits, undos, steps, one_row, config, hist, editor, clip>>

RowNext == Row_update \/ Row_cx_to_rx \/ Row_rx_to_cx \/ Row_chars_at \/ Row_rchars_at

SpecRow == InitRow /\ [][RowNext]_vars

-----------------------------------------------------------------------------
(* A Row of source text, highlighted with each Syntax table                *)

Syntaxes == {Syntax_UNKNOWN, Syntax_TEXT, Syntax_C, Syntax_RUST, Syntax_PYTHON}

\* the pieces the source texts are made of: words of the tables, comment
\* markers, quotes, the escape, a digit, a dot, letters, a paren, a path
\* delimiter, white space, the start of a call and the end of its argument
Tokens ==
    { <<"i", "f">>, <<"f", "n">>, <<"u", "8">>, <<"#", "i", "f">>,
      <<"/", "/">>, <<"/", "*">>, <<"*", "/">>, <<"#">>,
      <<"\"">>, <<"'">>, <<"\\">>, <<"1">>, <<".">>, <<"a">>, <<"S">>, <<"(">>,
      <<":", ":">>, <<" ">>, <<TAB>>, <<"a", "(">>, <<"b", ")">> }

\* the texts made of at most n tokens
RECURSIVE TokenTexts(_)
TokenTexts(n) ==
    IF n = 0 THEN {<<>>}
    ELSE LET shorter == TokenTexts(n - 1)
         IN  shorter \cup {p \o t : p \in shorter, t \in Tokens}

InitHighlight ==
    /\ buf = TextBuffer_new
    /\ cx = 0 /\ cy = 0
    /\ log = <<>>
    /\ edits = 0 /\ undos = 0 /\ steps = 0
    /\ panicked = NoPanic
    /\ \E t \in TokenTexts(MaxTokens) : one_row = [Row_new EXCEPT !.chars = t]
    /\ \E syntax \in Syntaxes : config = [tab_stop |-> TabStop, syntax |-> syntax]
    /\ call = NoCall
    /\ HistIdle
    /\ EditorIdle
    /\ ClipIdle

HighlightNext == Row_update

SpecHighlight == InitHighlight /\ [][HighlightNext]_vars

-----------------------------------------------------------------------------
(* A Row of block comments, highlighted with each Syntax table             *)

\* the pieces of the commented texts: the two markers of a block comment, a
\* small and a capital letter
CommentTokens == { <<"/", "*">>, <<"*", "/">>, <<"a">>, <<"S">> }

\* the texts made of at most n of these pieces
RECURSIVE CommentTexts(_)
CommentTexts(n) ==
    IF n = 0 THEN {<<>>}
    ELSE LET shorter == CommentTexts(n - 1)
         IN  shorter \cup {p \o t : p \in shorter, t \in CommentTokens}

InitComment ==
    /\ buf = TextBuffer_new
    /\ cx = 0 /\ cy = 0
    /\ log = <<>>
    /\ edits = 0 /\ undos = 0 /\ steps = 0
    /\ panicked = NoPanic
    /\ \E t \in CommentTexts(MaxCommentTokens) : one_row = [Row_new EXCEPT !.chars = t]
    /\ \E syntax \in Syntaxes : config = [tab_stop |-> TabStop, syntax |-> syntax]
    /\ call = NoCall
    /\ HistIdle
    /\ EditorIdle
    /\ ClipIdle

CommentNext == Row_update

SpecComment == InitComment /\ [][CommentNext]_vars

-----------------------------------------------------------------------------
(* One History taken on its own: perform, undo and redo called directly   *)

\* the diffs handed to perform
HistDiffs ==
    { Insert(Pos(0, 0), <<"a">>),
      Remove(Pos(1, 0), <<"b", "">>),
      Insert(Pos(0, 1), <<"", "c">>) }

InitHistory ==
    /\ buf = TextBuffer_new
    /\ cx = 0 /\ cy = 0
    /\ log = <<>>
    /\ edits = 0 /\ undos = 0 /\ steps = 0
    /\ panicked = NoPanic
    /\ RowIdle
    /\ HistIdle
    /\ EditorIdle
    /\ ClipIdle

Hist_perform ==
    /\ hist.n < MaxHistOps
    /\ \E d \in HistDiffs :
           hist' = [hist EXCEPT !.h = History_perform(hist.h, d), !.op = "perform",
                                !.some = FALSE, !.prev = hist.h, !.marks = <<>>,
                                !.redos = 0, !.n = hist.n + 1]
    /\ UNCHANGED <<buffer_vars, row_vars, editor, clip>>

Hist_undo ==
    /\ hist.n < MaxHistOps
    /\ hist' = [hist EXCEPT !.h = History_undo(hist.h).h, !.op = "undo",
                            !.some = History_undo(hist.h).some, !.prev = hist.h,
                            !.marks = IF History_undo(hist.h).some
                                      THEN Append(hist.marks, hist.h) ELSE hist.marks,
                            !.redos = 0, !.n = hist.n + 1]
    /\ UNCHANGED <<buffer_vars, row_vars, editor, clip>>

Hist_redo ==
    /\ hist.n < MaxHistOps
    /\ hist' = [hist EXCEPT !.h = History_redo(hist.h).h, !.op = "redo",
                            !.some = History_redo(hist.h).some, !.prev = hist.h,
                            !.marks = IF hist.marks # <<>> /\ History_redo(hist.h).some
                                      THEN Front(hist.marks) ELSE hist.marks,
                            !.expect = IF hist.marks # <<>> /\ History_redo(hist.h).some
                                       THEN Last(hist.marks) ELSE hist.expect,
                            !.redos = IF History_redo(hist.h).some
                                      THEN hist.redos + 1 ELSE 0,
                            !.n = hist.n + 1]
    /\ UNCHANGED <<buffer_vars, row_vars, editor, clip>>

HistoryNext == Hist_perform \/ Hist_undo \/ Hist_redo

SpecHistory == InitHistory /\ [][HistoryNext]_vars

-----------------------------------------------------------------------------
(* A Clipboard taken on its own, next to a system clipboard that accepts   *)
(* or refuses each call                                                    *)

\* the lines handed to save_context: empty, one char, two chars
ClipTexts == {<<>>, <<"a">>, <<"b", "c">>}

\* the contexts of at most n lines
ClipContexts(n) == UNION {[1..k -> ClipTexts] : k \in 0..n}

\* what the system clipboard holds when the editor starts: nothing readable,
\* the empty text, or a text another program put there
SystemContents ==
    {NoContents, Contents(<<>>), Contents(<<"x", NEWLINE, "y">>), Contents(<<"z", NEWLINE>>)}

InitClipboard ==
    /\ buf = TextBuffer_new
    /\ cx = 0 /\ cy = 0
    /\ log = <<>>
    /\ edits = 0 /\ undos = 0 /\ steps = 0
    /\ panicked = NoPanic
    /\ RowIdle
    /\ HistIdle
    /\ EditorIdle
    /\ \E system \in SystemContents : clip = Clipboard_new(system)

\* clipboard.save_context(context); set_contents is reached only by a context
\* that is not empty
Clip_save ==
    /\ Alive /\ steps < MaxClipOps
    /\ \E context \in ClipContexts(MaxClipRows) :
        \E set_ok \in IF context = <<>> THEN {FALSE} ELSE BOOLEAN :
            clip' = [save_context(clip, context, set_ok) EXCEPT
                         !.op = "save_context", !.context = context, !.set_ok = set_ok,
                         !.after_save = FALSE, !.get_ok = FALSE, !.ret = <<>>]
    /\ steps' = steps + 1
    /\ UNCHANGED <<buf, cx, cy, log, edits, undos, panicked, row_vars, hist, editor>>

\* clipboard.load_context(); get_contents can return Ok only when the system
\* clipboard holds a text
Clip_load ==
    /\ Alive /\ steps < MaxClipOps
    /\ \E get_ok \in IF clip.system.some THEN BOOLEAN ELSE {FALSE} :
        clip' = [clip EXCEPT !.op = "load_context", !.after_save = (clip.op = "save_context"),
                             !.get_ok = get_ok, !.ret = load_context(clip, get_ok)]
    /\ steps' = steps + 1
    /\ UNCHANGED <<buf, cx, cy, log, edits, undos, panicked, row_vars, hist, editor>>

ClipboardNext == Clip_save \/ Clip_load

SpecClipboard == InitClipboard /\ [][ClipboardNext]_vars

-----------------------------------------------------------------------------
(* Claims *)

\* the k-th call before the last one (k = 0: the last call)
Nth(k) == log[Len(log) - k]

\* the positions of the rendered text of a buffer, the end of each row included
RenderPositions(b) ==
    UNION { {Pos(x, y) : x \in 0..rsize(b.rows[y + 1])} : y \in 0..(num_rows(b) - 1) }

HasTab(texts) == \E i \in 1..Len(texts) : \E j \in 1..Len(texts[i]) : texts[i][j] = TAB

\* C1: after any calls of insert_rows / remove_rows (row texts may hold tabs),
\* an undo that undid something followed by redo leaves the chars of every row as
\* they were before the undo, and redo returns the position the edit returned.
C1_UndoThenRedoRestores ==
    (Len(log) >= 2 /\ Nth(0).op = "redo" /\ Nth(1).op = "undo" /\ Nth(1).ret.some) =>
        /\ Alive
        /\ chars_of(buf.rows) = Nth(1).pre
        /\ (Len(log) >= 3 /\ Nth(2).op \in EditOps) => Nth(0).ret = Nth(2).ret

\* a position insert_rows is meant for: a char index of an existing row,
\* or (0, 0) of the buffer without rows
ValidInsertPos(e) ==
    IF e.pre = <<>> THEN e.pos = Pos(0, 0)
    ELSE e.pos.y < Len(e.pre) /\ e.pos.x <= Len(e.pre[e.pos.y + 1])

\* C2: insert_rows(pos, rows) at a valid position of any buffer (the buffer without
\* rows included, tabs in the inserted text included) followed at once by undo
\* restores the row texts: the same number of rows, the same chars in each.
C2_InsertThenUndoRestores ==
    (Len(log) >= 2 /\ Nth(0).op = "undo" /\ Nth(1).op = "insert_rows"
        /\ ValidInsertPos(Nth(1))) =>
        /\ Alive
        /\ chars_of(buf.rows) = Nth(1).pre

\* C3: remove_rows(from, create_remove_msg_region(from, to)) for from < to inside the
\* buffer followed at once by undo restores the row texts, also when from is the end
\* of its row.
C3_RemoveThenUndoRestores ==
    (Len(log) >= 2 /\ Nth(0).op = "undo" /\ Nth(1).op = "remove_rows"
        /\ PosLess(Nth(1).pos, Nth(1).to)) =>
        /\ Alive
        /\ chars_of(buf.rows) = Nth(1).pre

\* the text between two positions: one slice, or tail + full rows + head
RegionText(b, from, to) ==
    LET from_cx == rx_to_cx(b.rows[from.y + 1], from.x, TabStop)
        to_cx == rx_to_cx(b.rows[to.y + 1], to.x, TabStop)
        fc == b.rows[from.y + 1].chars
        tc == b.rows[to.y + 1].chars
    IN  IF from.y = to.y THEN << SubSeq(fc, from_cx + 1, to_cx) >>
        ELSE << SubSeq(fc, from_cx + 1, Len(fc)) >>
             \o [k \in 1..(to.y - from.y - 1) |-> b.rows[from.y + k + 1].chars]
             \o << SubSeq(tc, 1, to_cx) >>

\* C4: create_remove_msg_region(from, to) with from <= to returns the text between
\* the two positions: its first element is empty when from is the end of its row,
\* and the text is empty when from = to.
C4_RegionIsTextBetween ==
    \A from \in RenderPositions(buf), to \in RenderPositions(buf) :
        PosLeq(from, to) =>
            create_remove_msg_region(buf, from, to)
                = [ok |-> TRUE, rows |-> RegionText(buf, from, to)]

\* C10: insert_rows with pos.y >= the number of rows of a buffer that has rows
\* completes and inserts into the last row, as if pos.y were the last row index.
C10_RowIndexClamped ==
    (log # <<>> /\ Nth(0).op = "insert_rows" /\ Nth(0).pre # <<>>
        /\ Nth(0).pos.y >= Len(Nth(0).pre) /\ Nth(0).arg # <<>>) =>
        /\ Alive
        /\ chars_of(buf.rows)
            = chars_of(insert_rows_no_diff(open(Nth(0).pre),
                                            Pos(Nth(0).pos.x, Len(Nth(0).pre) - 1),
                                            rows_from(Nth(0).arg, Syntax_UNKNOWN)).buf.rows)

\* C5: after n > DEPTH recorded edits with no undo in between, exactly DEPTH undo
\* calls in a row succeed; the next one returns None and leaves the buffer as it
\* is, and the text of the n - DEPTH oldest edits is still in the buffer.
C5_OnlyDepthUndos ==
    (log # <<>> /\ Nth(0).op = "undo" /\ edits > DEPTH /\ undos >= 1) =>
        /\ Alive
        /\ undos <= DEPTH => Nth(0).ret.some
        /\ undos = DEPTH + 1 =>
            /\ Nth(0).ret = None
            /\ chars_of(buf.rows) = Nth(0).pre
            /\ chars_of(buf.rows) = << [i \in 1..(edits - DEPTH) |-> "x"] >>

\* the failed undo that follows DEPTH undos of more than DEPTH edits
C5_Witness ==
    /\ log # <<>> /\ Nth(0).op = "undo" /\ Nth(0).ret = None
    /\ edits = DEPTH + 1 /\ undos = DEPTH + 1
    /\ chars_of(buf.rows) = << <<"x">> >>

\* C6: the applied stack never holds more than DEPTH diffs; a diff recorded while
\* DEPTH are held drops the oldest one, the others keep their order and the new
\* diff is on top.
C6_AppliedStackBounded ==
    [][ /\ Len(buf'.history.redo) <= DEPTH
        /\ (Depth_Type /\ Len(buf.history.redo) = DEPTH) =>
            /\ Len(buf'.history.redo) = DEPTH
            /\ Front(buf'.history.redo) = Tail(buf.history.redo)
            /\ Last(buf'.history.redo) = Insert(Pos(cx, cy), << <<"x">> >>)
      ]_vars

\* a full applied stack whose oldest diff is no longer the first edit
C6_Witness ==
    /\ Len(buf.history.redo) = DEPTH
    /\ buf.history.redo[1].pos # Pos(0, 0)
    /\ edits > DEPTH

\* a key that records an edit
EditKey == Key_Char \/ Key_Tab \/ Key_Enter \/ Key_Backspace \/ Key_Delete

\* C7: after a new edit is recorded the undone stack is empty, whatever undos came
\* before; a redo that follows returns None and changes neither rows nor history.
C7_EditClearsRedo ==
    [][ /\ (EditKey /\ log' # log /\ panicked' = NoPanic) => buf'.history.undo = <<>>
        /\ (Key_Redo /\ log # <<>> /\ Last(log).op \in EditOps) =>
            /\ Last(log').ret = None
            /\ buf'.rows = buf.rows
            /\ buf'.history = buf.history
      ]_vars

\* undo, then a new edit, then a redo that finds nothing
C7_Witness ==
    /\ Len(log) >= 3 /\ Alive
    /\ Nth(2).op = "undo" /\ Nth(2).ret.some
    /\ Nth(1).op \in EditOps
    /\ Nth(0).op = "redo" /\ Nth(0).ret = None
    /\ buf.history.redo # <<>>

\* C8: History.undo on an empty applied stack and History.redo on an empty undone
\* stack return None and leave both stacks alone; TextBuffer.undo and redo then
\* return None and leave rows, dirty flag and history alone.
C8_NothingToDo ==
    [][ /\ buf.history.redo = <<>> =>
            /\ History_undo(buf.history) = [some |-> FALSE, h |-> buf.history]
            /\ Key_Undo => (Last(log').ret = None /\ buf' = buf /\ panicked' = NoPanic)
        /\ buf.history.undo = <<>> =>
            /\ History_redo(buf.history) = [some |-> FALSE, h |-> buf.history]
            /\ Key_Redo => (Last(log').ret = None /\ buf' = buf /\ panicked' = NoPanic)
      ]_vars

\* a redo with nothing undone, on a dirty buffer with applied diffs, after an undo
\* with nothing applied had returned None too
C8_Witness ==
    /\ Len(log) >= 2 /\ Alive
    /\ Nth(0).op = "redo" /\ Nth(0).ret = None
    /\ buf.is_dirty /\ buf.history.redo # <<>>
    /\ \E i \in 1..Len(log) : log[i].op = "undo" /\ log[i].ret = None

\* C9: no sequence of key events reaches an out-of-range string or row index
\* (a panic) inside insert_rows, remove_rows, create_remove_msg_region, undo or redo.
C9_NoPanic == panicked \notin {"insert_rows", "remove_rows", "undo", "redo"}

\* the rows insert_rows(pos, rows) is to leave, from the texts before the call
SplicedRows(old, x, y, new) ==
    LET n == Len(new)
        head == SubSeq(old[y + 1], 1, x)
        tail == SubSeq(old[y + 1], x + 1, Len(old[y + 1]))
    IN  SubSeq(old, 1, y)
        \o (IF n = 1 THEN << head \o new[1] \o tail >>
            ELSE << head \o new[1] >> \o SubSeq(new, 2, n - 1) \o << new[n] \o tail >>)
        \o SubSeq(old, y + 2, Len(old))

\* the char index right after the inserted text, in the row where it ends
EndOfInserted(x, new) == IF Len(new) = 1 THEN x + Len(new[1]) ELSE Len(new[Len(new)])

\* C11: insert_rows((x, y), rows) with row y present, x <= len(row y) and n >= 1 rows
\* splices the rows in (row y cut at x, the first row appended to its head, the last
\* row followed by its tail, the rows after y shifted down by n - 1) and returns
\* (render column right after the inserted text, y + n - 1).
C11_InsertSplices ==
    (log # <<>> /\ Nth(0).op = "insert_rows" /\ Nth(0).arg # <<>> /\ Nth(0).pre # <<>>
        /\ ValidInsertPos(Nth(0))) =>
        LET e == Nth(0)
            n == Len(e.arg)
        IN  /\ Alive
            /\ chars_of(buf.rows) = SplicedRows(e.pre, e.pos.x, e.pos.y, e.arg)
            /\ e.ret = Some(Pos(cx_to_rx(buf.rows[e.pos.y + n],
                                         EndOfInserted(e.pos.x, e.arg), TabStop),
                                e.pos.y + n - 1))

\* the call insert_rows(Pos(1, 0), ["ab", "cd"]) on the buffer ["xy"] has just returned
TwoRowBlockInserted ==
    /\ log # <<>>
    /\ Nth(0).op = "insert_rows"
    /\ Nth(0).pre = << <<"x", "y">> >>
    /\ Nth(0).pos = Pos(1, 0)
    /\ Nth(0).arg = << <<"a", "b">>, <<"c", "d">> >>

\* C12, as stated: inserting ["ab", "cd"] at Position(1,0) into ["xy"] gives the rows
\* ["xab", "cdy"] and returns Position(1,1).
C12_TwoRowBlockAsStated ==
    TwoRowBlockInserted =>
        /\ Alive
        /\ chars_of(buf.rows) = << <<"x", "a", "b">>, <<"c", "d", "y">> >>
        /\ Nth(0).ret = Some(Pos(1, 1))

\* C12, amended: inserting ["ab", "cd"] at Position(1,0) into ["xy"] gives the rows
\* ["xab", "cdy"] and returns Position(2,1), the column right after "cd" in row 1.
C12_TwoRowBlock ==
    TwoRowBlockInserted =>
        /\ Alive
        /\ chars_of(buf.rows) = << <<"x", "a", "b">>, <<"c", "d", "y">> >>
        /\ Nth(0).ret = Some(Pos(2, 1))

\* the two-row block has been inserted into ["xy"] at Position(1,0)
C12_Witness == TwoRowBlockInserted /\ Alive /\ num_rows(buf) = 2

\* the char index of the render column rx in a row with the text chars
CharIndex(chars, rx) == rx_to_cx([Row_new EXCEPT !.chars = chars], rx, TabStop)

\* rows is the text of old that starts at the char index from_cx of row y
TextStartsAt(old, from_cx, y, rows) ==
    LET n == Len(rows)
    IN  /\ n >= 1
        /\ y + n <= Len(old)
        /\ from_cx <= Len(old[y + 1])
        /\ IF n = 1
           THEN /\ from_cx + Len(rows[1]) <= Len(old[y + 1])
                /\ SubSeq(old[y + 1], from_cx + 1, from_cx + Len(rows[1])) = rows[1]
           ELSE /\ SubSeq(old[y + 1], from_cx + 1, Len(old[y + 1])) = rows[1]
                /\ \A k \in 2..(n - 1) : old[y + k] = rows[k]
                /\ Len(rows[n]) <= Len(old[y + n])
                /\ SubSeq(old[y + n], 1, Len(rows[n])) = rows[n]

\* the rows remove_rows(from, rows) is to leave, from the texts before the call
RowsWithout(old, from_cx, y, rows) ==
    LET n == Len(rows)
        to_cx == IF n = 1 THEN from_cx + Len(rows[1]) ELSE Len(rows[n])
    IN  SubSeq(old, 1, y)
        \o << SubSeq(old[y + 1], 1, from_cx)
              \o SubSeq(old[y + n], to_cx + 1, Len(old[y + n])) >>
        \o SubSeq(old, y + n + 1, Len(old))

\* C13: remove_rows(from, rows), rows being the n >= 1 rows of text that start at
\* from, deletes exactly that span (row from.y becomes its head up to from followed by
\* the tail of row from.y + n - 1 after the span, the n - 1 rows after it disappear,
\* the other rows keep their text) and returns from; tabs in the text included.
C13_RemoveDeletesSpan ==
    (log # <<>> /\ Nth(0).op = "remove_rows" /\ Nth(0).pos.y < Len(Nth(0).pre)
        /\ TextStartsAt(Nth(0).pre, CharIndex(Nth(0).pre[Nth(0).pos.y + 1], Nth(0).pos.x),
                        Nth(0).pos.y, Nth(0).arg)) =>
        LET e == Nth(0)
            from_cx == CharIndex(e.pre[e.pos.y + 1], e.pos.x)
        IN  /\ Alive
            /\ chars_of(buf.rows) = RowsWithout(e.pre, from_cx, e.pos.y, e.arg)
            /\ Len(buf.rows) = Len(e.pre) - (Len(e.arg) - 1)
            /\ e.ret = Some(e.pos)

\* C14: for every row text with zero or more tabs, every tab stop >= 1 and every
\* char index cx with 0 <= cx <= len(chars), rx_to_cx(cx_to_rx(cx)) = cx.
C14_RoundTrip ==
    call.op = "cx_to_rx" => rx_to_cx(one_row, call.ret, config.tab_stop) = call.a

\* cx_to_rx has been called with a char index after a tab and a char that follows
\* it, with a tab stop wider than one column
C14_Witness ==
    /\ call.op = "cx_to_rx"
    /\ config.tab_stop > 1
    /\ call.a >= 2
    /\ call.a < size(one_row)
    /\ \E i \in 1..call.a : one_row.chars[i] = TAB
    /\ call.ret > call.a

\* C15: Row::update replaces each tab with spaces up to the next multiple of tab_stop,
\* so that the length of render is cx_to_rx(len(chars)), every char other than a tab
\* stands in render at cx_to_rx of its char index, and the columns of a tab are spaces.
C15_RenderMatchesColumns ==
    (call.op = "update" /\ Alive) =>
        /\ rsize(one_row) = cx_to_rx(one_row, size(one_row), config.tab_stop)
        /\ \A i \in 0..(size(one_row) - 1) :
            LET rx == cx_to_rx(one_row, i, config.tab_stop)
                nx == cx_to_rx(one_row, i + 1, config.tab_stop)
            IN  /\ nx <= rsize(one_row)
                /\ IF one_row.chars[i + 1] = TAB
                   THEN \A k \in (rx + 1)..nx : one_row.render[k] = " "
                   ELSE one_row.render[rx + 1] = one_row.chars[i + 1]

\* C16: after Row::update, for every row text and every Syntax table, hl has the
\* length of render, render is at least as long as chars, and the scan has come to
\* its end: every read of the previous tag hl[i - 1] was within the tags emitted.
C16_HlCoversRender ==
    call.op = "update" =>
        /\ Alive
        /\ Len(one_row.hl) = rsize(one_row)
        /\ rsize(one_row) >= size(one_row)

\* update has tagged a row of a known language in which a flow word is followed by
\* another character, whose scan read the tag before it
C16_Witness ==
    /\ call.op = "update"
    /\ Alive
    /\ config.syntax.lang # "Unknown"
    /\ rsize(one_row) >= 3
    /\ Len(one_row.hl) = rsize(one_row)
    /\ one_row.hl[2].syntax = "Flowword"
    /\ one_row.hl[3].syntax # "Flowword"

\* C17: when insert_rows, remove_rows, undo or redo has returned, every row of the
\* buffer has the render that Row::update makes of its current chars, tags made from
\* that render and as many of them as render has columns: no row is left with a
\* render or hl computed from an older value of chars.
C17_RowsUpToDate ==
    (log # <<>> /\ Alive) =>
        \A y \in 1..Len(buf.rows) :
            /\ buf.rows[y].render = render_of(buf.rows[y].chars, TabStop)
            /\ Len(buf.rows[y].hl) = rsize(buf.rows[y])
            /\ buf.rows[y] = update(buf.rows[y], TabStop, buf.syntax)

\* an undo has put removed text back into a buffer that holds a tab, and the text
\* of the buffer is no longer what it was before the undo
C17_Witness ==
    /\ log # <<>> /\ Alive
    /\ Nth(0).op = "undo"
    /\ Nth(0).ret # None
    /\ chars_of(buf.rows) # Nth(0).pre
    /\ \E y \in 1..Len(buf.rows) : buf.rows[y].has_tabs /\ rsize(buf.rows[y]) > size(buf.rows[y])

\* C18: a call of Row::update that follows another one, with the same tab stop and
\* Syntax table and no change of chars in between, leaves render, hl and the has-tabs
\* flag as they were after the first call.
C18_UpdateTwice ==
    (call.op = "update" /\ call.a >= 2) =>
        /\ Alive
        /\ one_row.render = call.before.render
        /\ one_row.hl = call.before.hl
        /\ one_row.has_tabs = call.before.has_tabs

\* update has been called twice on a row of a known language with a tab and a
\* tagged word in it
C18_Witness ==
    /\ call.op = "update" /\ call.a = 2
    /\ config.syntax.lang # "Unknown"
    /\ one_row.has_tabs
    /\ \E k \in 1..Len(one_row.hl) : one_row.hl[k].syntax # "Normal"

\* the call of chars_at / rchars_at just made had a range a..b with a <= b, or a..,
\* whose start a is at or beyond the length of the string it reads
StartsBeyond ==
    /\ call.op \in {"chars_at", "rchars_at"}
    /\ call.start.kind = "Included"
    /\ call.start.i >= (IF call.op = "chars_at" THEN size(one_row) ELSE rsize(one_row))
    /\ \/ call.end.kind = "Unbounded"
       \/ call.end.kind = "Excluded" /\ call.start.i <= call.end.i

\* C19: chars_at and rchars_at with a range whose start is at or beyond the row
\* length (a..b, a.., len..len; the row empty or not) return the empty string and
\* do not fail.
C19_BeyondIsEmpty == StartsBeyond => (Alive /\ call.str = <<>>)

\* the chars of a row over the intersection of a..b with [0, len)
Clamped(chars, a, b) ==
    SubSeq(chars, a + 1, IF b > Len(chars) THEN Len(chars) ELSE b)

\* C20: chars_at(a..b) with a < len(chars) < b returns chars[a..len]; for every
\* half-open range a..b (a <= b) the result is the slice of the row over the
\* intersection of the range with [0, len).
C20_EndClamped ==
    (call.op = "chars_at" /\ call.start.kind = "Included" /\ call.end.kind = "Excluded"
        /\ call.start.i <= call.end.i) =>
        /\ Alive
        /\ call.str = Clamped(one_row.chars, call.start.i, call.end.i)

\* i is d with the other tag, at the same position and with the same rows
Swapped(d, i) ==
    /\ d.tag \in {"Insert", "Remove"}
    /\ i.tag = (IF d.tag = "Insert" THEN "Remove" ELSE "Insert")
    /\ i.pos = d.pos
    /\ i.rows = d.rows

\* C21: the diff an undo puts on the undone stack, and the diff a redo puts back
\* on the applied stack, is the diff it took with Insert and Remove exchanged,
\* position and rows unchanged; and for every diff d a History holds,
\* inverse(d) is d so exchanged and inverse(inverse(d)) = d.
C21_InverseSwapsTag ==
    /\ (hist.op = "undo" /\ hist.some) =>
           Swapped(Last(hist.prev.redo), Last(hist.h.undo))
    /\ (hist.op = "redo" /\ hist.some) =>
           Swapped(Last(hist.prev.undo), Last(hist.h.redo))
    /\ \A i \in 1..Len(hist.h.redo) :
           /\ Swapped(hist.h.redo[i], inverse(hist.h.redo[i]))
           /\ inverse(inverse(hist.h.redo[i])) = hist.h.redo[i]
    /\ \A i \in 1..Len(hist.h.undo) :
           /\ Swapped(hist.h.undo[i], inverse(hist.h.undo[i]))
           /\ inverse(inverse(hist.h.undo[i])) = hist.h.undo[i]

\* C21 witness: an Insert and a Remove were both undone, and a redo has put the
\* Remove back
C21_Witness ==
    /\ hist.op = "redo" /\ hist.some
    /\ Last(hist.h.redo).tag = "Remove"
    /\ hist.h.undo # <<>> /\ Last(hist.h.undo).tag = "Remove"

\* C24: History.undo on a non-empty applied stack takes its top d off and puts
\* inverse(d) on top of the undone stack; a redo that returns Some takes the top
\* of the undone stack off and puts its inverse on the applied stack; and a redo
\* leaves both stacks as the undo it answers found them, so that undo then
\* redo, and k undos followed by k redos, leave both stacks as they were.
C24_UndoRedoStacks ==
    /\ (hist.op = "undo" /\ hist.prev.redo # <<>>) =>
           /\ hist.some
           /\ hist.h.redo = Front(hist.prev.redo)
           /\ hist.h.undo = Append(hist.prev.undo, inverse(Last(hist.prev.redo)))
    /\ (hist.op = "redo" /\ hist.prev.undo # <<>>) =>
           /\ hist.some
           /\ hist.h.undo = Front(hist.prev.undo)
           /\ hist.h.redo = Append(hist.prev.redo, inverse(Last(hist.prev.undo)))
           /\ hist.h = hist.expect
    /\ Len(hist.marks) = Len(hist.h.undo)

\* C24 witness: two undos were followed by two redos on a History that held
\* two applied diffs
C24_Witness ==
    /\ hist.op = "redo" /\ hist.some /\ hist.redos = 2
    /\ hist.marks = <<>>
    /\ Len(hist.expect.redo) = 2
    /\ hist.h = hist.expect

\* some row of the buffer has a tag whose overlay class is Select
HasSelected(b) ==
    \E k \in 1..num_rows(b) : \E i \in 1..Len(b.rows[k].hl) :
        b.rows[k].hl[i].select = "Select"

\* C22: a buffer that is not in select mode (none was entered, or
\* Screen::exit_select_mode has run since, whatever keys moved the cursor in
\* between) has no anchor and no row with a tag whose overlay class is Select.
C22_ExitLeavesNoSelection ==
    (Alive /\ ~buf.in_select_mode) =>
        (~buf.select_anchor.some /\ ~HasSelected(buf))

\* the number of chars that the rows before row k (counted from 1) and their
\* newlines take
RECURSIVE Offset(_, _)
Offset(texts, k) ==
    IF k <= 1 THEN 0 ELSE Offset(texts, k - 1) + Len(texts[k - 1]) + 1

\* C23: the text save_file writes is, row after row in their order, the chars
\* of the row followed by one newline, the last row included, and nothing
\* else; a buffer without rows gives the empty text.
C23_TextIsRowsWithNewlines ==
    (Alive /\ log # <<>> /\ Nth(0).op = "save_file") =>
        LET texts == chars_of(buf.rows)
            text == Nth(0).arg[1]
        IN  /\ Len(text) = Offset(texts, Len(texts) + 1)
            /\ \A k \in 1..Len(texts) :
                   /\ SubSeq(text, Offset(texts, k) + 1, Offset(texts, k) + Len(texts[k]))
                          = texts[k]
                   /\ text[Offset(texts, k) + Len(texts[k]) + 1] = NEWLINE
            /\ (texts = <<>> => text = <<>>)

\* C23 witness: a buffer of two rows, one of them empty, was saved
C23_Witness ==
    /\ Alive /\ log # <<>> /\ Nth(0).op = "save_file"
    /\ num_rows(buf) = 2
    /\ \E k \in 1..2 : buf.rows[k].chars = <<>>
    /\ Nth(0).arg[1] # <<>>

\* the diffs of a History in the order in which they were performed: the
\* applied ones, then the undone ones, last undone first, as they were applied
RECURSIVE Undone(_)
Undone(undo_stack) ==
    IF undo_stack = <<>> THEN <<>>
    ELSE <<inverse(Last(undo_stack))>> \o Undone(Front(undo_stack))

Timeline(h) == h.redo \o Undone(h.undo)

\* the diff on top of the applied stack is the one the last edit made
Recorded ==
    (Alive /\ log # <<>> /\ Nth(0).op \in EditOps) =>
        /\ History_has_current(buf.history)
        /\ History_current(buf.history) =
               (IF Nth(0).op = "insert_rows" THEN Insert(Nth(0).pos, Nth(0).arg)
                ELSE Remove(Nth(0).pos, Nth(0).arg))

\* C25: right after insert_rows(pos, rows) History.current() is
\* Insert(pos, chars of each row in order), right after remove_rows(from, rows)
\* it is Remove(from, rows); an undo or a redo made through the TextBuffer
\* records no diff: it only moves the top diff from one stack to the other.
C25_EditsRecordedUndoMoves ==
    [][ /\ Recorded'
        /\ ((Key_Undo \/ Key_Redo) /\ Alive') =>
               /\ Timeline(buf'.history) = Timeline(buf.history)
               /\ Key_Undo => Len(buf'.history.redo) =
                                  Len(buf.history.redo) - (IF Nth(0)'.ret.some THEN 1 ELSE 0)
               /\ Key_Redo => Len(buf'.history.redo) =
                                  Len(buf.history.redo) + (IF Nth(0)'.ret.some THEN 1 ELSE 0)
      ]_vars

\* C25 witness: a char was typed and a char removed, the removal was undone
\* and redone, and the Remove diff is the current one again
C25_Witness ==
    /\ Alive /\ Len(log) >= 3
    /\ Nth(2).op = "remove_rows"
    /\ Nth(1).op = "undo" /\ Nth(1).ret.some
    /\ Nth(0).op = "redo" /\ Nth(0).ret.some
    /\ History_current(buf.history) = Remove(Nth(2).pos, Nth(2).arg)
    /\ Len(buf.history.redo) = 2

\* C26: a redo that follows an undo (k = 1 of k undos followed by k redos)
\* returns, has put the undone diff back as History.current(), and leaves the
\* text of the buffer as it was before that undo.
C26_RedoReappliesUndone ==
    (Len(log) >= 2 /\ Nth(0).op = "redo" /\ Nth(1).op = "undo" /\ Nth(1).ret.some) =>
        /\ Alive
        /\ Nth(0).ret.some
        /\ History_has_current(buf.history)
        /\ chars_of(buf.rows) = Nth(1).pre

\* removing the payload msg takes a non-empty span away: it has more than one
\* row, or its one row has chars
NonEmptySpan(msg) == Len(msg) >= 2 \/ (Len(msg) = 1 /\ msg[1] # <<>>)

\* the diff d applied forward (an Insert inserts, a Remove removes), or taken
\* back, inserts at least one row or removes a non-empty span
Changes(d, taken_back) ==
    IF (d.tag = "Insert") = taken_back THEN NonEmptySpan(d.rows) ELSE Len(d.rows) >= 1

\* the last call was an edit, an undo or a redo that inserted at least one row
\* or removed a non-empty span
Edited ==
    /\ Alive /\ log # <<>>
    /\ CASE Nth(0).op = "insert_rows" -> Len(Nth(0).arg) >= 1
         [] Nth(0).op = "remove_rows" -> NonEmptySpan(Nth(0).arg)
         [] Nth(0).op = "undo" ->
                Nth(0).ret.some /\ Changes(inverse(Last(buf.history.undo)), TRUE)
         [] Nth(0).op = "redo" ->
                Nth(0).ret.some /\ Changes(History_current(buf.history), FALSE)
         [] OTHER -> FALSE

\* C27: after insert_rows with at least one row, after remove_rows of a
\* non-empty span, and after an undo or redo that makes such an insertion or
\* removal, the dirty flag is set; once set it stays set over every call but
\* save_file (make_clean) and open; after open, and after save_file, it is cleared.
C27_DirtyUntilSaved ==
    [][ /\ Edited' => buf'.is_dirty
        /\ (buf.is_dirty /\ Alive' /\ ~Key_Save /\ ~Key_Open) => buf'.is_dirty
        /\ (Key_Save \/ Key_Open) => ~buf'.is_dirty
      ]_vars

\* C27 witness: a saved buffer is dirty again after an undo
C27_Witness ==
    /\ Alive /\ Len(log) >= 2
    /\ Nth(1).op = "save_file"
    /\ Nth(0).op = "undo" /\ Nth(0).ret.some
    /\ buf.is_dirty

\* C28: update_highlight with the table of the unknown language gives a row
\* exactly one tag per render character, each of them (Normal, Normal),
\* whatever the text holds (quotes, comment markers, digits, words).
C28_UnknownAllNormal ==
    (call.op = "update" /\ config.syntax.lang = "Unknown") =>
        /\ Alive
        /\ Len(one_row.hl) = Len(one_row.render)
        /\ \A k \in 1..Len(one_row.hl) :
               one_row.hl[k] = [syntax |-> "Normal", select |-> "Normal"]

\* C28 witness: a row with a line-comment marker and an open quote was tagged
\* with the table of the unknown language
C28_Witness ==
    /\ call.op = "update" /\ config.syntax.lang = "Unknown"
    /\ one_row.render = <<"/", "/", "\"">>
    /\ Len(one_row.hl) = 3

\* the word w stands in text at position p (counted from 1)
Matches(text, p, w) ==
    p + Len(w) - 1 <= Len(text) /\ SubSeq(text, p, p + Len(w) - 1) = w

\* the first position at which w stands in text, 0 when it stands nowhere
FirstMatch(text, w) ==
    IF \E p \in 1..Len(text) : Matches(text, p, w)
    THEN CHOOSE p \in 1..Len(text) :
             Matches(text, p, w) /\ \A q \in 1..(p - 1) : ~Matches(text, q, w)
    ELSE 0

\* the quote that is open at the end of a text without escapes: "" when none is
RECURSIVE QuoteState(_)
QuoteState(text) ==
    IF text = <<>> THEN ""
    ELSE IF QuoteState(Front(text)) = ""
    THEN (IF Last(text) \in Quotes THEN Last(text) ELSE "")
    ELSE IF Last(text) = QuoteState(Front(text)) THEN "" ELSE QuoteState(Front(text))

\* a text in which nothing but quotes can hide what follows it from the scan:
\* it holds no escape and no start of a block comment
Plain(text, syntax) ==
    /\ \A k \in 1..Len(text) : text[k] # "\\"
    /\ syntax.multi_comment.some =>
           \A k \in 1..Len(text) : ~Matches(text, k, syntax.multi_comment.start)

\* the first line-comment marker of the row that update tagged, when what
\* stands before it is plain: 0 when there is none
FirstMarker ==
    IF call.op = "update" /\ Alive /\ config.syntax.ln_comment.some
    THEN (IF FirstMatch(one_row.render, config.syntax.ln_comment.str) > 0
             /\ Plain(SubSeq(one_row.render, 1,
                             FirstMatch(one_row.render, config.syntax.ln_comment.str) - 1),
                      config.syntax)
          THEN FirstMatch(one_row.render, config.syntax.ln_comment.str) ELSE 0)
    ELSE 0

\* a quote is open where the first marker stands
MarkerInQuote ==
    /\ checkflags(HIGHLIGHT_STRINGS, config.syntax.flags)
    /\ QuoteState(SubSeq(one_row.render, 1, FirstMarker - 1)) # ""

\* C29: in a row tagged with a table that has a line-comment marker, where the
\* first marker stands outside any quote, its character and every later one
\* are tagged Comment and the tags before it are those the text before it gets
\* on its own; where it stands inside an open quote it is tagged String, not
\* Comment.
C29_LineComment ==
    FirstMarker > 0 =>
        IF MarkerInQuote
        THEN one_row.hl[FirstMarker].syntax = "String"
        ELSE /\ \A k \in FirstMarker..Len(one_row.hl) : one_row.hl[k].syntax = "Comment"
             /\ Len(one_row.hl) = Len(one_row.render)
             /\ SubSeq(one_row.hl, 1, FirstMarker - 1) =
                    update_highlight([one_row EXCEPT !.render =
                                          SubSeq(one_row.render, 1, FirstMarker - 1)],
                                     config.syntax).hl

\* C29 witness: a flow word is followed by the marker of C or Rust
C29_Witness ==
    /\ FirstMarker = 3 /\ ~MarkerInQuote
    /\ one_row.hl[1].syntax = "Flowword"
    /\ one_row.hl[4].syntax = "Comment"

\* the tags k..q-1 of the row are all of the class tag
RunOf(tag, k, q) == \A j \in k..(q - 1) : one_row.hl[j].syntax = tag

\* C30: in a row tagged with a table that highlights identifiers, a character
\* is tagged Function exactly when it belongs to the run of identifier
\* characters that stands directly before a '(': every Function tag lies in a
\* run of Function tags that ends at a '(' and has no Ident tag before it, and
\* no run of Ident tags ends at a '('.
C30_FunctionBeforeParen ==
    (call.op = "update" /\ Alive /\ checkflags(HIGHLIGHT_IDENTS, config.syntax.flags)) =>
        \A k \in 1..Len(one_row.hl) :
            /\ one_row.hl[k].syntax = "Function" =>
                   /\ \E q \in (k + 1)..Len(one_row.render) :
                          /\ one_row.render[q] = "("
                          /\ one_row.hl[q].syntax # "Function"
                          /\ RunOf("Function", k, q)
                   /\ ~is_sep(one_row.render[k])
                   /\ k > 1 => one_row.hl[k - 1].syntax # "Ident"
            /\ one_row.hl[k].syntax = "Ident" =>
                   ~(k < Len(one_row.render) /\ one_row.render[k + 1] = "(")

\* C30 witness: the row a(b) of C: a is Function, b is Ident
C30_Witness ==
    /\ call.op = "update" /\ Alive /\ config.syntax.lang = "C"
    /\ one_row.render = <<"a", "(", "b", ")">>
    /\ one_row.hl[1].syntax = "Function"
    /\ one_row.hl[2].syntax = "Normal"
    /\ one_row.hl[3].syntax = "Ident"
    /\ one_row.hl[4].syntax = "Normal"

\* the characters from position p on that lie in a comment, for a text read
\* with the block-comment depth `depth` at p: a start marker opens one more
\* level; an end marker inside a comment closes one level when nesting is
\* allowed and every level when it is not; a line-comment marker takes the
\* rest of the row
RECURSIVE InComment(_, _, _, _, _)
InComment(text, p, depth, syntax, nesting) ==
    LET mc == syntax.multi_comment
        rest(n, d) == [k \in 1..n |-> TRUE] \o InComment(text, p + n, d, syntax, nesting)
    IN  IF p > Len(text) THEN <<>>
        ELSE IF syntax.ln_comment.some /\ Matches(text, p, syntax.ln_comment.str)
        THEN [k \in 1..(Len(text) - p + 1) |-> TRUE]
        ELSE IF Matches(text, p, mc.start) THEN rest(Len(mc.start), depth + 1)
        ELSE IF depth > 0 /\ Matches(text, p, mc.end)
        THEN rest(Len(mc.end), IF nesting THEN depth - 1 ELSE 0)
        ELSE IF depth > 0 THEN rest(1, depth)
        ELSE <<FALSE>> \o InComment(text, p + 1, 0, syntax, nesting)

\* C31: in a row tagged with a table that has block-comment markers, the depth
\* the scan ends with is not negative, and whatever set of flags the table was
\* declared with to carry the flags value it has: the characters tagged
\* Comment are those that lie in a comment when an end marker closes one level
\* if NESTED_COMMENTS is among the declared flags and every level if it is
\* not, and a Type tag appears only if CAPITAL_AS_TYPES is among them.
C31_DepthFollowsNestingFlag ==
    (call.op = "update" /\ Alive /\ config.syntax.multi_comment.some) =>
        /\ scan(one_row, config.syntax, scan_start).nested >= 0
        /\ \A names \in SUBSET FlagNames :
               bitexpr(names) = config.syntax.flags =>
                   /\ [k \in 1..Len(one_row.hl) |-> one_row.hl[k].syntax = "Comment"] =
                          InComment(one_row.render, 1, 0, config.syntax,
                                    "NESTED_COMMENTS" \in names)
                   /\ (\E k \in 1..Len(one_row.hl) : one_row.hl[k].syntax = "Type") =>
                          "CAPITAL_AS_TYPES" \in names

\* C32: a buffer in select mode has an anchor, and the anchor stands in a row
\* the buffer has.
C32_AnchorInBuffer ==
    (Alive /\ buf.in_select_mode) =>
        /\ buf.select_anchor.some
        /\ buf.select_anchor.pos.y < num_rows(buf)

\* C33: after a key event the cursor stands at an insertion point of the
\* buffer: in row 0 when the buffer has no rows, else in a row the buffer has
\* and at most one past the last char of that row.
C33_CursorAtInsertionPoint ==
    (Alive /\ steps > 0) =>
        IF num_rows(buf) = 0 THEN cy = 0
        ELSE /\ cy < num_rows(buf)
             /\ cx <= size(buf.rows[cy + 1])

\* C34: the process exits through Ctrl+Q on a dirty buffer only when the key
\* events right before it, with no other key event between, were the
\* quit_times presses of Ctrl+Q that showed the warning; and Ctrl+W closes a
\* dirty buffer only when the key events right before it were the close_times
\* presses of Ctrl+W that showed the warning.
C34_ExitOnlyAfterWarnings ==
    [][ /\ (Key_Quit /\ buf.is_dirty /\ editor'.exited) =>
               editor.quit_warned = QuitTimes
        /\ (Key_Close /\ buf.is_dirty /\ editor'.close_warned = 0) =>
               editor.close_warned = CloseTimes ]_vars

\* the last call asked for an edit of no text: insert_rows with no rows, or
\* remove_rows of the span from a position to itself
EmptyRequest ==
    /\ log # <<>>
    /\ \/ Nth(0).op = "insert_rows" /\ Nth(0).arg = <<>>
       \/ Nth(0).op = "remove_rows" /\ Nth(0).pos = Nth(0).to

\* C35: insert_rows with an empty list of rows and remove_rows of an empty
\* span leave the History as it was: no diff on the applied stack, the undone
\* stack kept.
C35_EmptyEditKeepsHistory ==
    [][ ((Edit_insert_rows \/ Edit_remove_rows) /\ Alive' /\ EmptyRequest') =>
            buf'.history = buf.history ]_vars

\* C36: load_context() called right after save_context(context) with a
\* context that is not empty returns the lines of the context, in their
\* order, when the system clipboard accepted the text and gives it back and
\* when it refused the text and cannot be read.
C36_ClipboardRoundTrip ==
    (clip.op = "load_context" /\ clip.after_save /\ clip.context # <<>>
        /\ clip.get_ok = clip.set_ok) =>
        clip.ret = clip.context

\* C37: when Ctrl+C copies a selection from a position to a later one,
\* get_region_chars gives the clipboard the list of strings that
\* create_remove_msg_region returns for the same two positions.
C37_SameRegionStrings ==
    [][ (Key_Copy /\ Alive' /\ buf.in_select_mode
            /\ PosLess(get_select_region(buf, cx, cy).from,
                       get_select_region(buf, cx, cy).to)) =>
            /\ clip'.op = "save_context"
            /\ create_remove_msg_region(buf, get_select_region(buf, cx, cy).from,
                                        get_select_region(buf, cx, cy).to).ok
            /\ clip'.context =
                   create_remove_msg_region(buf, get_select_region(buf, cx, cy).from,
                                            get_select_region(buf, cx, cy).to).rows ]_vars

====
